---- MODULE Spec2Model ----
(***************************************************************************)
(* A model of DB-TG-Explorer: the identifier and raw-statement validators, *)
(* the pagination codec, the query browser, the guided-query session and   *)
(* the handlers that drive them.                                           *)
(*                                                                         *)
(* Texts (SQL statements, identifiers, callback data) are TLA+ strings;    *)
(* they are taken apart character by character with SubSeq, the way the    *)
(* Python code takes them apart.                                           *)
(***************************************************************************)
EXTENDS Integers, Sequences, FiniteSets, TLC

VARIABLES
    kwOrder,        \* iteration order of the set _BLOCKED_KEYWORDS in this process
    catalog,        \* the database's public tables, ordered by name, with their columns
    inited,         \* main(): the domain modules whose init() has returned
    results,        \* _init_domain_modules: what gather holds per domain module
    _table,         \* per domain module: the module-level _table
    _date_col,      \* per domain module: _date_col
    _value_col,     \* per domain module: _value_col (weight, steps, heart)
    _start_col,     \* sleep module: _start_col
    _duration_col,  \* sleep module: _duration_col
    fsm,            \* the operator's FSM state (None: no state)
    fsm_data,       \* the operator's FSM data: the stored table (None: no key)
    issued,         \* the database calls the last operation issued, in order
    keyboard,       \* the buttons of the last reply's inline keyboard
    reply,          \* what the last operation answered
    last,           \* the last operation, its input, and the session it met
    pc,             \* pure-function harness: "call" before the call, "done" after
    fn,             \* pure-function harness: the function applied
    arg,            \* pure-function harness: its argument
    res,            \* pure-function harness: its result
    now,            \* time.monotonic(), in seconds
    _timestamps,    \* per RateLimitMiddleware instance: _timestamps
    handled         \* the updates that reached a handler, with their time

mappingVars == <<_table, _date_col, _value_col, _start_col, _duration_col, results>>
sessionVars == <<fsm, fsm_data>>
ioVars      == <<issued, keyboard, reply, last>>
botVars     == <<catalog, inited, mappingVars, sessionVars, ioVars>>
fnVars      == <<pc, fn, arg, res>>
gateVars    == <<now, _timestamps, handled>>
vars        == <<kwOrder, botVars, fnVars, gateVars>>

-----------------------------------------------------------------------------
(* Python values *)

\* Python's None where a str is expected.  No text of the model contains "<".
None == "<None>"

\* Python's None where an int that cannot be negative (a count) is expected.
NoneInt == -1

Max(a, b) == IF a >= b THEN a ELSE b

-----------------------------------------------------------------------------
(* Characters and the str methods the code uses *)

CharAt(s, i) == SubSeq(s, i, i)

LowerChars == "abcdefghijklmnopqrstuvwxyz"
UpperChars == "ABCDEFGHIJKLMNOPQRSTUVWXYZ"
DigitChars == "0123456789"

CharsOf(s) == {CharAt(s, i) : i \in 1..Len(s)}

LowerSet == CharsOf(LowerChars)
UpperSet == CharsOf(UpperChars)
DigitSet == CharsOf(DigitChars)

\* The characters str.strip() removes, among the characters of the model.
WhitespaceSet == {" ", "\t", "\n", "\r", "\f"}

IndexIn(chars, c) == CHOOSE i \in 1..Len(chars) : CharAt(chars, i) = c

UpperChar(c) == IF c \in LowerSet THEN CharAt(UpperChars, IndexIn(LowerChars, c)) ELSE c
LowerChar(c) == IF c \in UpperSet THEN CharAt(LowerChars, IndexIn(UpperChars, c)) ELSE c

RECURSIVE str_upper(_)
str_upper(s) ==
    IF s = "" THEN "" ELSE UpperChar(CharAt(s, 1)) \o str_upper(SubSeq(s, 2, Len(s)))

RECURSIVE str_lower(_)
str_lower(s) ==
    IF s = "" THEN "" ELSE LowerChar(CharAt(s, 1)) \o str_lower(SubSeq(s, 2, Len(s)))

RECURSIVE str_lstrip(_)
str_lstrip(s) ==
    IF s # "" /\ CharAt(s, 1) \in WhitespaceSet
    THEN str_lstrip(SubSeq(s, 2, Len(s)))
    ELSE s

RECURSIVE str_rstrip(_)
str_rstrip(s) ==
    IF s # "" /\ CharAt(s, Len(s)) \in WhitespaceSet
    THEN str_rstrip(SubSeq(s, 1, Len(s) - 1))
    ELSE s

str_strip(s) == str_lstrip(str_rstrip(s))

\* s.rstrip(";")
RECURSIVE str_rstrip_semicolon(_)
str_rstrip_semicolon(s) ==
    IF s # "" /\ CharAt(s, Len(s)) = ";"
    THEN str_rstrip_semicolon(SubSeq(s, 1, Len(s) - 1))
    ELSE s

str_startswith(s, p) == Len(s) >= Len(p) /\ SubSeq(s, 1, Len(p)) = p

\* sub in s
str_contains(s, sub) ==
    \E i \in 1..(Len(s) - Len(sub) + 1) : SubSeq(s, i, i + Len(sub) - 1) = sub

\* The first index at which sep occurs in s, 0 when it does not.
FindChar(s, sep) ==
    IF \E i \in 1..Len(s) : CharAt(s, i) = sep
    THEN CHOOSE i \in 1..Len(s) :
            CharAt(s, i) = sep /\ \A j \in 1..(i - 1) : CharAt(s, j) # sep
    ELSE 0

\* s.split(sep): a sequence of strings, one more than the separators in s.
RECURSIVE str_split(_, _)
str_split(s, sep) ==
    LET i == FindChar(s, sep)
    IN  IF i = 0
        THEN <<s>>
        ELSE <<SubSeq(s, 1, i - 1)>> \o str_split(SubSeq(s, i + 1, Len(s)), sep)

\* s.split(sep, maxsplit)
RECURSIVE str_split_max(_, _, _)
str_split_max(s, sep, maxsplit) ==
    LET i == FindChar(s, sep)
    IN  IF i = 0 \/ maxsplit = 0
        THEN <<s>>
        ELSE <<SubSeq(s, 1, i - 1)>>
                 \o str_split_max(SubSeq(s, i + 1, Len(s)), sep, maxsplit - 1)

\* sep.join(parts)
RECURSIVE str_join(_, _)
str_join(parts, sep) ==
    IF Len(parts) = 0 THEN ""
    ELSE IF Len(parts) = 1 THEN parts[1]
    ELSE parts[1] \o sep \o str_join(Tail(parts), sep)

\* str(n) for an int n
RECURSIVE NatToStr(_)
NatToStr(n) ==
    IF n < 10
    THEN CharAt(DigitChars, n + 1)
    ELSE NatToStr(n \div 10) \o CharAt(DigitChars, (n % 10) + 1)

int_to_str(n) == IF n < 0 THEN "-" \o NatToStr(-n) ELSE NatToStr(n)

\* int(s): Python strips whitespace, takes an optional sign, then decimal
\* digits in which single underscores may separate digits; anything else
\* raises ValueError.  The result is [ok |-> BOOLEAN, val |-> Int].
RECURSIVE DigitsValue(_, _)
DigitsValue(s, acc) ==
    IF s = "" THEN acc
    ELSE IF CharAt(s, 1) = "_" THEN DigitsValue(SubSeq(s, 2, Len(s)), acc)
    ELSE DigitsValue(SubSeq(s, 2, Len(s)),
                     acc * 10 + (IndexIn(DigitChars, CharAt(s, 1)) - 1))

DigitsWellFormed(s) ==
    /\ s # ""
    /\ \A i \in 1..Len(s) : CharAt(s, i) \in DigitSet \cup {"_"}
    /\ CharAt(s, 1) # "_"
    /\ CharAt(s, Len(s)) # "_"
    /\ \A i \in 1..(Len(s) - 1) : ~(CharAt(s, i) = "_" /\ CharAt(s, i + 1) = "_")

str_to_int(s) ==
    LET t      == str_strip(s)
        signed == t # "" /\ CharAt(t, 1) \in {"+", "-"}
        body   == IF signed THEN SubSeq(t, 2, Len(t)) ELSE t
        neg    == signed /\ CharAt(t, 1) = "-"
    IN  IF DigitsWellFormed(body)
        THEN [ok |-> TRUE,
              val |-> IF neg THEN 0 - DigitsValue(body, 0) ELSE DigitsValue(body, 0)]
        ELSE [ok |-> FALSE, val |-> 0]

-----------------------------------------------------------------------------
(* Regular expressions of generic.py *)

IsIdentStart(c) == c \in LowerSet \cup UpperSet \cup {"_"}
IsIdentChar(c)  == c \in LowerSet \cup UpperSet \cup DigitSet \cup {"_"}

\* [a-zA-Z_][a-zA-Z0-9_]* matches exactly the first k characters of name.
IdentPrefix(name, k) ==
    /\ k >= 1
    /\ k <= Len(name)
    /\ IsIdentStart(CharAt(name, 1))
    /\ \A i \in 2..k : IsIdentChar(CharAt(name, i))

\* _IDENT_RE.match(name) for ^[a-zA-Z_][a-zA-Z0-9_]*$ : Python's $ matches at
\* the end of the string and also just before a newline that ends the string.
IDENT_RE_match(name) ==
    \/ IdentPrefix(name, Len(name))
    \/ /\ Len(name) >= 2
       /\ CharAt(name, Len(name)) = "\n"
       /\ IdentPrefix(name, Len(name) - 1)

_safe_identifier(name) == IDENT_RE_match(name)

\* \w of a Python str pattern, among the characters of the model.
IsWordChar(c) == c \in LowerSet \cup UpperSet \cup DigitSet \cup {"_"}

\* \b between s[p] and s[p+1] (p = 0: before the text, p = Len(s): after it).
WordBoundary(s, p) ==
    (p >= 1 /\ IsWordChar(CharAt(s, p))) # (p < Len(s) /\ IsWordChar(CharAt(s, p + 1)))

\* re.search(rf"\b{kw}\b", s)
\* A faulty variant of the keyword search: a plain substring search, without
\* the word boundaries.
re_search_substring(kw, s) == str_contains(s, kw)

re_search_word(kw, s) ==
    \E i \in 1..(Len(s) - Len(kw) + 1) :
        /\ SubSeq(s, i, i + Len(kw) - 1) = kw
        /\ WordBoundary(s, i - 1)
        /\ WordBoundary(s, i + Len(kw) - 1)

-----------------------------------------------------------------------------
(* generic.validate_select and generic.ensure_limit *)

_BLOCKED_KEYWORDS ==
    {"INSERT", "UPDATE", "DELETE", "DROP", "ALTER", "TRUNCATE",
     "CREATE", "GRANT", "REVOKE", "COPY", "EXECUTE"}

\* A Python set of str iterates in an order fixed per process (string hashing
\* is randomised per process); the orders the model tries.
SourceOrder ==
    <<"INSERT", "UPDATE", "DELETE", "DROP", "ALTER", "TRUNCATE",
      "CREATE", "GRANT", "REVOKE", "COPY", "EXECUTE">>

Reverse(seq) == [i \in 1..Len(seq) |-> seq[Len(seq) + 1 - i]]

KeywordOrders == {SourceOrder, Reverse(SourceOrder)}

ErrSelect    == "Only SELECT statements are allowed."
ErrSemicolon == "Semicolons are not allowed."
ErrKeyword(kw) == "Keyword " \o kw \o " is not allowed."

\* The first keyword, in the iteration order, that re.search finds.
FirstBlocked(upper) ==
    LET hits == {i \in 1..Len(kwOrder) : re_search_word(kwOrder[i], upper)}
    IN  IF hits = {} THEN None
        ELSE kwOrder[CHOOSE i \in hits : \A j \in hits : i <= j]

\* Faulty variants of validate_select, to show that the properties below tell
\* them apart from the code: one skips the semicolon rule, one tests the
\* semicolon rule before the SELECT rule.
validate_select_noSemicolon(sql) ==
    LET stripped == str_strip(sql)
        upper    == str_upper(stripped)
    IN  IF ~str_startswith(upper, "SELECT") THEN ErrSelect
        ELSE IF FirstBlocked(upper) # None THEN ErrKeyword(FirstBlocked(upper))
        ELSE None

validate_select_semicolonFirst(sql) ==
    LET stripped == str_strip(sql)
        upper    == str_upper(stripped)
    IN  IF str_contains(stripped, ";") THEN ErrSemicolon
        ELSE IF ~str_startswith(upper, "SELECT") THEN ErrSelect
        ELSE IF FirstBlocked(upper) # None THEN ErrKeyword(FirstBlocked(upper))
        ELSE None

validate_select(sql) ==
    LET stripped == str_strip(sql)
        upper    == str_upper(stripped)
    IN  IF ~str_startswith(str_upper(stripped), "SELECT") THEN ErrSelect
        ELSE IF str_contains(stripped, ";") THEN ErrSemicolon
        ELSE IF FirstBlocked(upper) # None THEN ErrKeyword(FirstBlocked(upper))
        ELSE None

\* A faulty variant: appends the clause without looking for one.
ensure_limit_alwaysAppends(sql, max_rows) ==
    str_rstrip_semicolon(str_rstrip(sql)) \o " LIMIT " \o int_to_str(max_rows)

ensure_limit(sql, max_rows) ==
    IF ~str_contains(str_upper(sql), "LIMIT")
    THEN str_rstrip_semicolon(str_rstrip(sql)) \o " LIMIT " \o int_to_str(max_rows)
    ELSE sql

-----------------------------------------------------------------------------
(* paging.encode and paging.decode *)

SEPARATOR == ":"
PREFIX    == "p"

\* A faulty variant of encode that drops the extra field.
encode_withoutExtra(module, offset, extra) ==
    str_join(<<PREFIX, module, int_to_str(offset)>>, SEPARATOR)

encode(module, offset, extra) ==
    LET parts == <<PREFIX, module, int_to_str(offset)>>
                     \o (IF extra # "" THEN <<extra>> ELSE <<>>)
    IN  str_join(parts, SEPARATOR)

\* decode(data): [raised |-> BOOLEAN, module, offset, extra]; raised is the
\* ValueError of int(parts[2]).
decode(data) ==
    LET parts  == str_split(data, SEPARATOR)
        module == IF Len(parts) > 1 THEN parts[2] ELSE ""
        off    == IF Len(parts) > 2 THEN str_to_int(parts[3]) ELSE [ok |-> TRUE, val |-> 0]
        extra  == IF Len(parts) > 3 THEN parts[4] ELSE ""
    IN  IF off.ok
        THEN [raised |-> FALSE, module |-> module, offset |-> off.val, extra |-> extra]
        ELSE [raised |-> TRUE, module |-> module, offset |-> 0, extra |-> extra]

-----------------------------------------------------------------------------
(* Inputs *)

\* All strings made of at most n pieces of alphabet.
RECURSIVE StringsUpTo(_, _)
StringsUpTo(alphabet, n) ==
    IF n = 0 THEN {""}
    ELSE LET shorter == StringsUpTo(alphabet, n - 1)
         IN  shorter \cup {s \o c : s \in shorter, c \in alphabet}

-----------------------------------------------------------------------------
(* The database, as the code sees it *)

\* One database call: the helper of db.py that ran it, the SQL text handed to
\* it, the names that were interpolated into that text, and the bound arguments.
Query(helper, sql, idents, args) ==
    [helper |-> helper, sql |-> sql, idents |-> idents, args |-> args]

\* A table name of 60 characters: PostgreSQL accepts names of up to 63 bytes.
LongNameLen == 60
RECURSIVE Repeat(_, _)
Repeat(c, n) == IF n = 0 THEN "" ELSE c \o Repeat(c, n - 1)
LongName == Repeat("a", LongNameLen)

Table(name, cols) == [name |-> name, cols |-> cols]

\* The catalogs the model starts from.  information_schema returns tables
\* ORDER BY table_name, so each sequence is in that order.
CatalogTypical ==
    <<Table("my table", <<"id">>),
      Table("steps_daily", <<"Date", "steps">>),
      Table("weight", <<"id", "measured_at", "weight_kg">>)>>

CatalogAwkward ==
    <<Table(LongName, <<"id">>),
      Table("heart_rate", <<"time", "bpm", "TIME">>),
      Table("sleep", <<"night", "duration">>),
      Table("t\n", <<"id">>)>>

CatalogEmpty == <<>>

Catalogs == {CatalogTypical, CatalogAwkward, CatalogEmpty}

TableNames(cat) == [i \in 1..Len(cat) |-> cat[i].name]
HasTable(cat, name) == \E i \in 1..Len(cat) : cat[i].name = name
ColumnsOf(cat, name) ==
    IF HasTable(cat, name)
    THEN cat[CHOOSE i \in 1..Len(cat) : cat[i].name = name].cols
    ELSE <<>>

\* What the database answers to the calls of one operation: which of the
\* calls fails (0: none; a timeout, a lost connection), the count(*) it
\* reports and whether a row query finds rows.
\* An operation that makes n calls, reads the counts in counts and may find
\* rows (nrows = 1) or not draws its answers from DbAnswers(n, counts, nrows).
MaxTotal == 25
Counts == {0, MaxTotal}
DbAnswers(n, counts, nrows) == [fail : 0..n, count : counts, nrows : nrows]

\* The database while main() starts up: every call is answered.
DbUp == [fail |-> 0, count |-> 0, nrows |-> 0]

\* PostgreSQL refuses a statement that names a relation it does not have, a
\* negative OFFSET and a negative LIMIT.
DbRefuses(table, limit, offset) ==
    ~HasTable(catalog, table) \/ limit < 0 \/ offset < 0

-----------------------------------------------------------------------------
(* generic.py: schema introspection *)

_LIST_TABLES_SQL ==
    "SELECT table_name FROM information_schema.tables WHERE table_schema = 'public' AND table_type = 'BASE TABLE' ORDER BY table_name;"
_DESCRIBE_SQL ==
    "SELECT column_name, data_type, is_nullable, column_default FROM information_schema.columns WHERE table_schema = 'public' AND table_name = $1 ORDER BY ordinal_position;"
_INDEXES_SQL ==
    "SELECT indexname, indexdef FROM pg_indexes WHERE schemaname = 'public' AND tablename = $1 ORDER BY indexname;"
_TABLE_EXISTS_SQL ==
    "SELECT 1 FROM information_schema.tables WHERE table_schema='public' AND table_name=$1"

\* Each operation yields [q: the calls it issued, raised: whether it raised,
\* val: what it returned].
Result(q, raised, val) == [q |-> q, raised |-> raised, val |-> val]

list_tables(db) ==
    LET q1 == Query("fetch", _LIST_TABLES_SQL, <<>>, <<>>)
    IN  IF db.fail = 1 THEN Result(<<q1>>, TRUE, <<>>)
        ELSE Result(<<q1>>, FALSE, TableNames(catalog))

describe_table(table, db) ==
    IF ~_safe_identifier(table) THEN Result(<<>>, FALSE, <<>>)
    ELSE LET q1 == Query("fetch", _DESCRIBE_SQL, <<>>, <<table>>)
             q2 == Query("fetch", _INDEXES_SQL, <<>>, <<table>>)
         IN  IF db.fail = 1 THEN Result(<<q1>>, TRUE, <<>>)
             ELSE IF db.fail = 2 THEN Result(<<q1, q2>>, TRUE, <<>>)
             ELSE Result(<<q1, q2>>, FALSE, ColumnsOf(catalog, table))

get_columns(table, db) ==
    LET q1 == Query("fetch", _DESCRIBE_SQL, <<>>, <<table>>)
    IN  IF db.fail = 1 THEN Result(<<q1>>, TRUE, <<>>)
        ELSE Result(<<q1>>, FALSE, ColumnsOf(catalog, table))

table_exists(table, db) ==
    IF ~_safe_identifier(table) THEN Result(<<>>, FALSE, FALSE)
    ELSE LET q1 == Query("fetchval", _TABLE_EXISTS_SQL, <<>>, <<table>>)
         IN  IF db.fail = 1 THEN Result(<<q1>>, TRUE, FALSE)
             ELSE Result(<<q1>>, FALSE, HasTable(catalog, table))

\* browse_table: val is [headers, rows (how many), total].
Browsed(headers, rows, total) == [headers |-> headers, rows |-> rows, total |-> total]

\* A faulty variant: the name goes into the statements without the check.
browse_table_unchecked(table, limit, offset, db) ==
    LET q1 == Query("fetchval",
                    "SELECT count(*) FROM \"" \o table \o "\"",
                    <<table>>, <<>>)
        q2 == Query("fetch",
                    "SELECT * FROM \"" \o table \o "\" ORDER BY 1 DESC LIMIT $1 OFFSET $2",
                    <<table>>, <<limit, offset>>)
    IN  IF db.fail = 1 \/ ~HasTable(catalog, table)
        THEN Result(<<q1>>, TRUE, Browsed(<<>>, 0, 0))
        ELSE IF db.fail = 2 \/ DbRefuses(table, limit, offset)
        THEN Result(<<q1, q2>>, TRUE, Browsed(<<>>, 0, 0))
        ELSE Result(<<q1, q2>>, FALSE,
                    Browsed(ColumnsOf(catalog, table), db.nrows, db.count))

\* A faulty variant: a page without rows reports a total of 0.
browse_table_emptyMeansZero(table, limit, offset, db) ==
    IF ~_safe_identifier(table) THEN Result(<<>>, FALSE, Browsed(<<>>, 0, 0))
    ELSE
        LET q1 == Query("fetchval",
                        "SELECT count(*) FROM \"" \o table \o "\"",
                        <<table>>, <<>>)
            q2 == Query("fetch",
                        "SELECT * FROM \"" \o table \o "\" ORDER BY 1 DESC LIMIT $1 OFFSET $2",
                        <<table>>, <<limit, offset>>)
            total == db.count
        IN  IF db.fail = 1 \/ ~HasTable(catalog, table)
            THEN Result(<<q1>>, TRUE, Browsed(<<>>, 0, 0))
            ELSE IF db.fail = 2 \/ DbRefuses(table, limit, offset)
            THEN Result(<<q1, q2>>, TRUE, Browsed(<<>>, 0, 0))
            ELSE IF db.nrows = 0
            THEN Result(<<q1, q2>>, FALSE, Browsed(<<>>, 0, 0))
            ELSE Result(<<q1, q2>>, FALSE,
                        Browsed(ColumnsOf(catalog, table), db.nrows, total))

browse_table(table, limit, offset, db) ==
    IF ~_safe_identifier(table) THEN Result(<<>>, FALSE, Browsed(<<>>, 0, 0))
    ELSE
        LET q1 == Query("fetchval",
                        "SELECT count(*) FROM \"" \o table \o "\"",
                        <<table>>, <<>>)
            q2 == Query("fetch",
                        "SELECT * FROM \"" \o table \o "\" ORDER BY 1 DESC LIMIT $1 OFFSET $2",
                        <<table>>, <<limit, offset>>)
            total == db.count
        IN  IF db.fail = 1 \/ ~HasTable(catalog, table)
            THEN Result(<<q1>>, TRUE, Browsed(<<>>, 0, 0))
            ELSE IF db.fail = 2 \/ DbRefuses(table, limit, offset)
            THEN Result(<<q1, q2>>, TRUE, Browsed(<<>>, 0, 0))
            ELSE IF db.nrows = 0
            THEN Result(<<q1, q2>>, FALSE, Browsed(<<>>, 0, total))
            ELSE Result(<<q1, q2>>, FALSE,
                        Browsed(ColumnsOf(catalog, table), db.nrows, total))

-----------------------------------------------------------------------------
(* db.py: execute_readonly and the dynamic-query helpers *)

\* One fetch inside a READ ONLY transaction on an acquired connection:
\*     async with pool.acquire() as conn:
\*         async with conn.transaction(readonly=True):
\*             rows = await conn.fetch(query, *args, timeout=timeout)
\* The database may fail the 1st step (acquire), the 2nd (BEGIN READ ONLY),
\* the 3rd (the fetch: a rejection, a timeout) or the 4th (COMMIT).  Leaving
\* the transaction block rolls back when the fetch raised and commits
\* otherwise; leaving the acquire block releases the connection.  The call
\* is recorded with the steps taken on the connection (conn), the one that
\* raised included, and with the step that raised (failed).
\* A faulty variant: a fetch that raises leaves the transaction open and the
\* connection out of the pool.
execute_readonly_leaksOnFailure(query, db) ==
    LET conn == CASE db.fail = 1 -> <<"acquire">>
                  [] db.fail = 2 -> <<"acquire", "begin_readonly", "release">>
                  [] db.fail = 3 -> <<"acquire", "begin_readonly", "fetch">>
                  [] OTHER       -> <<"acquire", "begin_readonly", "fetch", "commit",
                                      "release">>
        q1   == [helper |-> "execute_readonly", sql |-> query, idents |-> <<>>,
                 args |-> <<>>, conn |-> conn,
                 failed |-> IF db.fail = 0 THEN None ELSE conn[db.fail]]
    IN  IF db.fail # 0 THEN Result(<<q1>>, TRUE, 0)
        ELSE Result(<<q1>>, FALSE, db.nrows)

execute_readonly(query, db) ==
    LET conn == CASE db.fail = 1 -> <<"acquire">>
                  [] db.fail = 2 -> <<"acquire", "begin_readonly", "release">>
                  [] db.fail = 3 -> <<"acquire", "begin_readonly", "fetch", "rollback",
                                      "release">>
                  [] OTHER       -> <<"acquire", "begin_readonly", "fetch", "commit",
                                      "release">>
        q1   == [helper |-> "execute_readonly", sql |-> query, idents |-> <<>>,
                 args |-> <<>>, conn |-> conn,
                 failed |-> IF db.fail = 0 THEN None ELSE conn[db.fail]]
    IN  IF db.fail # 0 THEN Result(<<q1>>, TRUE, 0)
        ELSE Result(<<q1>>, FALSE, db.nrows)

\* ident.replace('"', '""')
RECURSIVE DoubleQuotes(_)
DoubleQuotes(s) ==
    IF s = "" THEN ""
    ELSE (IF CharAt(s, 1) = "\"" THEN "\"\"" ELSE CharAt(s, 1))
             \o DoubleQuotes(SubSeq(s, 2, Len(s)))

_quote_ident(ident) == "\"" \o DoubleQuotes(ident) \o "\""

_GET_TABLES_SQL ==
    "SELECT table_name FROM information_schema.tables WHERE table_schema = $1 AND table_type = 'BASE TABLE' ORDER BY table_name"
_GET_TABLE_COLUMNS_SQL ==
    "SELECT column_name, data_type, is_nullable, ordinal_position FROM information_schema.columns WHERE table_schema = $1 AND table_name = $2 ORDER BY ordinal_position"
_GET_PRIMARY_KEY_SQL ==
    "SELECT kcu.column_name FROM information_schema.key_column_usage kcu JOIN information_schema.table_constraints tc ON kcu.constraint_name = tc.constraint_name AND kcu.table_schema = tc.table_schema WHERE kcu.table_schema = $1 AND kcu.table_name = $2 AND tc.constraint_type = 'PRIMARY KEY' ORDER BY kcu.ordinal_position"

\* Each helper runs as the nth database call of the operation that uses it.
get_tables(schema, nth, db) ==
    LET q1 == Query("fetch", _GET_TABLES_SQL, <<>>, <<schema>>)
    IN  IF db.fail = nth THEN Result(<<q1>>, TRUE, <<>>)
        ELSE Result(<<q1>>, FALSE, IF schema = "public" THEN TableNames(catalog) ELSE <<>>)

get_table_columns(table_name, schema, nth, db) ==
    LET q1 == Query("fetch", _GET_TABLE_COLUMNS_SQL, <<>>, <<schema, table_name>>)
    IN  IF db.fail = nth THEN Result(<<q1>>, TRUE, <<>>)
        ELSE Result(<<q1>>, FALSE,
                    IF schema = "public" THEN ColumnsOf(catalog, table_name) ELSE <<>>)

\* The catalogs of the model declare no primary keys.
get_primary_key(table_name, schema, nth, db) ==
    LET q1 == Query("fetch", _GET_PRIMARY_KEY_SQL, <<>>, <<schema, table_name>>)
    IN  IF db.fail = nth THEN Result(<<q1>>, TRUE, <<>>)
        ELSE Result(<<q1>>, FALSE, <<>>)

get_row_count(table_name, schema, nth, db) ==
    LET tbl == _quote_ident(schema) \o "." \o _quote_ident(table_name)
        q1  == Query("fetchval", "SELECT COUNT(*) FROM " \o tbl,
                     <<schema, table_name>>, <<>>)
    IN  IF db.fail = nth \/ schema # "public" \/ ~HasTable(catalog, table_name)
        THEN Result(<<q1>>, TRUE, 0)
        ELSE Result(<<q1>>, FALSE, db.count)

get_rows(table_name, schema, limit, offset, sort_by, nth, db) ==
    LET tbl == _quote_ident(schema) \o "." \o _quote_ident(table_name)
        order_clause ==
            IF sort_by # None /\ sort_by # ""
            THEN "ORDER BY " \o _quote_ident(sort_by)
            ELSE ""
        q1  == Query("fetch",
                     "SELECT * FROM " \o tbl \o " " \o order_clause \o " LIMIT $1 OFFSET $2",
                     <<schema, table_name>>
                         \o (IF sort_by # None /\ sort_by # "" THEN <<sort_by>> ELSE <<>>),
                     <<limit, offset>>)
    IN  IF db.fail = nth \/ schema # "public" \/ DbRefuses(table_name, limit, offset)
        THEN Result(<<q1>>, TRUE, 0)
        ELSE Result(<<q1>>, FALSE, db.nrows)

-----------------------------------------------------------------------------
(* queries/weight.py, steps.py, sleep.py, heart.py: the domain modules *)

Domains == {"weight", "steps", "sleep", "heart"}

\* main() starts polling once _init_domain_modules has gathered the four
\* init(); they run concurrently, each on the globals of its own module.
Polling == inited = Domains

TABLE_CANDIDATES(d) ==
    CASE d = "weight" -> <<"measurements_weight", "weight", "weight_measurements", "body_weight">>
      [] d = "steps"  -> <<"steps_daily", "steps", "daily_steps", "activity_steps">>
      [] d = "sleep"  -> <<"sleep_sessions", "sleep", "sleep_data", "sleep_records">>
      [] d = "heart"  -> <<"heart_rate_daily", "heart_rate_samples", "heart_rate", "heartrate", "hr_data">>

_DATE_CANDIDATES(d) ==
    CASE d = "weight" -> <<"date", "measured_at", "timestamp", "created_at", "time">>
      [] d = "steps"  -> <<"date", "measured_at", "timestamp", "created_at", "day">>
      [] d = "sleep"  -> <<"date", "night", "created_at">>
      [] d = "heart"  -> <<"date", "measured_at", "timestamp", "created_at", "time", "day">>

\* The sleep module has no value column.
_VALUE_CANDIDATES(d) ==
    CASE d = "weight" -> <<"weight_kg", "weight", "value", "kg">>
      [] d = "steps"  -> <<"steps", "step_count", "value", "total_steps">>
      [] d = "sleep"  -> <<>>
      [] d = "heart"  -> <<"bpm", "heart_rate", "avg_bpm", "value", "resting_hr", "avg_hr">>

_START_CANDIDATES == <<"start", "start_time", "sleep_start", "bedtime", "started_at">>
_DURATION_CANDIDATES == <<"duration", "duration_minutes", "total_minutes", "sleep_duration">>

Min(S) == CHOOSE x \in S : \A y \in S : x <= y
MaxOf(S) == CHOOSE x \in S : \A y \in S : x >= y

\* A faulty variant: the columns are walked, and the first one that any
\* candidate names wins.
_first_match_columnOrder(available_cols, candidates) ==
    LET hits == {i \in 1..Len(available_cols) :
                    \E k \in 1..Len(candidates) :
                        str_lower(available_cols[i]) = str_lower(candidates[k])}
    IN  IF hits = {} THEN None
        ELSE available_cols[CHOOSE i \in hits : \A j \in hits : i <= j]

\* lower_map = {c.lower(): c for c in available_cols}: a later column replaces
\* an earlier one with the same lower-cased name.
_first_match(available_cols, candidates) ==
    LET Cols(cand) == {i \in 1..Len(available_cols) :
                          str_lower(available_cols[i]) = str_lower(cand)}
        hits == {k \in 1..Len(candidates) : Cols(candidates[k]) # {}}
    IN  IF hits = {} THEN None
        ELSE available_cols[MaxOf(Cols(candidates[Min(hits)]))]

\* A faulty variant: the loop runs on and the last existing candidate wins.
LastExisting(d) ==
    LET cands == TABLE_CANDIDATES(d)
        found == {k \in 1..Len(cands) : table_exists(cands[k], DbUp).val}
    IN  IF found = {} THEN None ELSE cands[MaxOf(found)]

\* The first candidate table that table_exists finds, None when there is none.
FirstExisting(d) ==
    LET cands == TABLE_CANDIDATES(d)
        found == {k \in 1..Len(cands) : table_exists(cands[k], DbUp).val}
    IN  IF found = {} THEN None ELSE cands[Min(found)]

\* The table_exists calls init() makes until one answers true.
Probes(d) ==
    LET cands == TABLE_CANDIDATES(d)
        found == {k \in 1..Len(cands) : table_exists(cands[k], DbUp).val}
        upto  == IF found = {} THEN Len(cands) ELSE Min(found)
    IN  [k \in 1..upto |-> table_exists(cands[k], DbUp).q[1]]

_order_col(d) ==
    IF d = "sleep"
    THEN (IF _start_col # None THEN _start_col ELSE _date_col[d])
    ELSE _date_col[d]

\* A faulty variant: a resolved table is enough.
available_tableOnly(d) == _table[d] # None

available(d) ==
    IF d = "sleep"
    THEN _table[d] # None /\ _order_col(d) # None
    ELSE _table[d] # None /\ _date_col[d] # None /\ _value_col[d] # None

\* init() of domain module d, run by main() before polling starts.  The four
\* init() run as concurrent tasks and interleave where they await: one step
\* is the candidate loop up to the assignment of _table, the next one is
\* get_columns with the column assignments.  Between the two d is not in
\* inited and _table[d] is set.  The database answers every call.
init(d) ==
    /\ d \notin inited
    /\ IF _table[d] = None
       THEN LET t == FirstExisting(d)
            IN  /\ _table' = [_table EXCEPT ![d] = t]
                /\ inited' = IF t = None THEN inited \cup {d} ELSE inited
                /\ results' = IF t = None THEN [results EXCEPT ![d] = "False"]
                              ELSE results
                /\ issued' = Probes(d)
                /\ UNCHANGED <<_date_col, _value_col, _start_col, _duration_col>>
       ELSE LET cols == get_columns(_table[d], DbUp)
            IN  /\ _date_col' = [_date_col EXCEPT
                                    ![d] = _first_match(cols.val, _DATE_CANDIDATES(d))]
                /\ _value_col' =
                       IF d = "sleep" THEN _value_col
                       ELSE [_value_col EXCEPT
                                ![d] = _first_match(cols.val, _VALUE_CANDIDATES(d))]
                /\ _start_col' =
                       IF d = "sleep" THEN _first_match(cols.val, _START_CANDIDATES)
                       ELSE _start_col
                /\ _duration_col' =
                       IF d = "sleep" THEN _first_match(cols.val, _DURATION_CANDIDATES)
                       ELSE _duration_col
                /\ UNCHANGED _table
                /\ results' = [results EXCEPT
                                  ![d] = IF available(d)' THEN "True" ELSE "False"]
                /\ inited' = inited \cup {d}
                /\ issued' = cols.q
    /\ last' = [op |-> "init", input |-> d, state |-> fsm, data |-> fsm_data]
    /\ UNCHANGED <<gateVars, kwOrder, catalog, sessionVars, keyboard, reply, fnVars>>

\* A faulty variant of init_raises: the exception leaves gather, startup is
\* over for every domain, and the tables found so far are dropped.
init_raises_abortsStartup(d) ==
    /\ d \notin inited
    /\ issued' = <<>>
    /\ inited' = Domains
    /\ _table' = [e \in Domains |-> None]
    /\ results' = [e \in Domains |-> "Exception"]
    /\ UNCHANGED <<_date_col, _value_col, _start_col, _duration_col>>
    /\ last' = [op |-> "init_raises", input |-> d, state |-> fsm, data |-> fsm_data]
    /\ UNCHANGED <<gateVars, kwOrder, catalog, sessionVars, keyboard, reply, fnVars>>

\* init() of domain module d when the database fails one of its calls: a
\* table_exists of the candidate loop, or get_columns.  The exception ends
\* the task of d with whatever it had assigned; gather(return_exceptions=True)
\* keeps it as the result of d.
init_raises(d) ==
    /\ d \notin inited
    /\ IF _table[d] = None
       THEN \E k \in 1..Len(Probes(d)) : issued' = SubSeq(Probes(d), 1, k)
       ELSE issued' = get_columns(_table[d], [DbUp EXCEPT !.fail = 1]).q
    /\ inited' = inited \cup {d}
    /\ results' = [results EXCEPT ![d] = "Exception"]
    /\ UNCHANGED <<_table, _date_col, _value_col, _start_col, _duration_col>>
    /\ last' = [op |-> "init_raises", input |-> d, state |-> fsm, data |-> fsm_data]
    /\ UNCHANGED <<gateVars, kwOrder, catalog, sessionVars, keyboard, reply, fnVars>>

Quoted(name) == "\"" \o name \o "\""

\* recent(limit, offset) of domain module d, as the nth database call of the
\* operation that runs it
recent(d, limit, offset, nth, db) ==
    IF ~available(d) THEN Result(<<>>, FALSE, 0)
    ELSE LET oc == _order_col(d)
             q1 == Query("fetch",
                         "SELECT * FROM " \o Quoted(_table[d]) \o " ORDER BY "
                             \o Quoted(oc) \o " DESC LIMIT $1 OFFSET $2",
                         <<_table[d], oc>>, <<limit, offset>>)
         IN  IF db.fail = nth \/ DbRefuses(_table[d], limit, offset)
             THEN Result(<<q1>>, TRUE, 0)
             ELSE Result(<<q1>>, FALSE, db.nrows)

\* count() of domain module d: int(val) if val else 0
count(d, nth, db) ==
    IF ~available(d) THEN Result(<<>>, FALSE, 0)
    ELSE LET q1 == Query("fetchval",
                         "SELECT count(*) FROM " \o Quoted(_table[d]),
                         <<_table[d]>>, <<>>)
         IN  IF db.fail = nth \/ ~HasTable(catalog, _table[d])
             THEN Result(<<q1>>, TRUE, 0)
             ELSE Result(<<q1>>, FALSE, IF db.count = NoneInt THEN 0 ELSE db.count)

\* in_range(start, end) of the weight and steps modules; val is 1 when rows
\* were found.
in_range(d, nth, db) ==
    IF ~available(d) THEN Result(<<>>, FALSE, 0)
    ELSE LET q1 == Query("fetch",
                         "SELECT * FROM " \o Quoted(_table[d]) \o " WHERE "
                             \o Quoted(_date_col[d]) \o " >= $1 AND "
                             \o Quoted(_date_col[d]) \o " < $2 ORDER BY "
                             \o Quoted(_date_col[d]) \o " ASC",
                         <<_table[d], _date_col[d]>>, <<"start", "end">>)
         IN  IF db.fail = nth \/ ~HasTable(catalog, _table[d])
             THEN Result(<<q1>>, TRUE, 0)
             ELSE Result(<<q1>>, FALSE, db.nrows)

\* steps.avg_steps(days, start_utc)
avg_steps(nth, db) ==
    IF ~available("steps") THEN Result(<<>>, FALSE, NoneInt)
    ELSE LET q1 == Query("fetchval",
                         "SELECT AVG(" \o Quoted(_value_col["steps"]) \o ") FROM "
                             \o Quoted(_table["steps"]) \o " WHERE "
                             \o Quoted(_date_col["steps"]) \o " >= $1",
                         <<_value_col["steps"], _table["steps"], _date_col["steps"]>>,
                         <<"start_utc">>)
         IN  IF db.fail = nth THEN Result(<<q1>>, TRUE, NoneInt)
             ELSE Result(<<q1>>, FALSE, db.count)

-----------------------------------------------------------------------------
(* config.py and ui/keyboards.py *)

page_size        == 10
browse_page_size == 20

Button(text, data) == [text |-> text, data |-> data]

back_button(target) == Button("<< Back", target)
back_keyboard(target) == <<back_button(target)>>

\* Python's //, which rounds towards minus infinity.
FloorDiv(a, b) == IF a >= 0 THEN a \div b ELSE -((-a + b - 1) \div b)

\* A faulty variant: Next is offered when the next offset equals the total.
paginator_nextWhenFull(module, offset, psize, total, extra) ==
    LET prev_off == Max(0, offset - psize)
        page_num == FloorDiv(offset, psize) + 1
        total_pages == Max(1, -FloorDiv(-total, psize))
        next_off == offset + psize
        show_next == total = NoneInt \/ next_off <= total
    IN  (IF offset > 0 THEN <<Button("<< Prev", encode(module, prev_off, extra))>> ELSE <<>>)
        \o (IF total # NoneInt
            THEN <<Button(int_to_str(page_num) \o "/" \o int_to_str(total_pages), "noop")>>
            ELSE <<Button("p." \o int_to_str(page_num), "noop")>>)
        \o (IF show_next THEN <<Button("Next >>", encode(module, next_off, extra))>> ELSE <<>>)

\* paginator: the Prev / info / Next row.  total = NoneInt: count unknown.
paginator(module, offset, psize, total, extra) ==
    LET prev_off == Max(0, offset - psize)
        page_num == FloorDiv(offset, psize) + 1
        total_pages == Max(1, -FloorDiv(-total, psize))
        next_off == offset + psize
        show_next == total = NoneInt \/ next_off < total
    IN  (IF offset > 0 THEN <<Button("<< Prev", encode(module, prev_off, extra))>> ELSE <<>>)
        \o (IF total # NoneInt
            THEN <<Button(int_to_str(page_num) \o "/" \o int_to_str(total_pages), "noop")>>
            ELSE <<Button("p." \o int_to_str(page_num), "noop")>>)
        \o (IF show_next THEN <<Button("Next >>", encode(module, next_off, extra))>> ELSE <<>>)

paginated_keyboard(module, offset, psize, total, extra, extra_buttons) ==
    extra_buttons \o paginator(module, offset, psize, total, extra)
        \o <<back_button("cmd:start")>>

drill_down(items) == items \o <<back_button("cmd:start")>>

weight_actions == <<Button("Trend", "wt:trend"), Button("Graph", "wt:graph")>>
steps_actions  == <<Button("Graph", "st:graph")>>
_heart_actions == <<Button("Graph", "hr:graph")>>

table_actions(table_name) ==
    <<Button("Describe", "tbl:desc:" \o table_name),
      Button("Browse", encode("brw", 0, table_name))>>

-----------------------------------------------------------------------------
(* The operator's side: what can be pressed and typed *)

\* Buttons of older messages stay pressable, and a client chooses the data
\* it sends back: besides the buttons of the last reply, these tokens arrive.
StaleTokens ==
    {"cmd:start", "cmd:weight", "cmd:steps", "cmd:sleep", "cmd:heart",
     "cmd:tables", "cmd:query", "q:guided", "q:raw", "q:tbl:weight", "q:lim:7",
     "q:lim:x",
     "p:wt:7", "p:wt:-10", "p:brw:x:weight", "p:brw:0", "noop"}

Pressable == {keyboard[i].data : i \in 1..Len(keyboard)} \cup StaleTokens

\* The reply of a handler that raised: aiogram logs the exception and nothing
\* is sent.
Raised == "<raised>"

\* A faulty variant: a handler run that queried the database forgets the tables.
Respond_forgetsTables(op, input, f, fd, q, kb, r) ==
    /\ fsm' = f
    /\ fsm_data' = fd
    /\ issued' = q
    /\ keyboard' = kb
    /\ reply' = r
    /\ last' = [op |-> op, input |-> input, state |-> fsm, data |-> fsm_data]
    /\ _table' = IF q # <<>> THEN [d \in Domains |-> None] ELSE _table
    /\ UNCHANGED <<gateVars, kwOrder, catalog, inited, _date_col, _value_col, _start_col,
                   _duration_col, results, fnVars>>

\* The effect of one handler run on the session and on what the operator sees.
Respond(op, input, f, fd, q, kb, r) ==
    /\ fsm' = f
    /\ fsm_data' = fd
    /\ issued' = q
    /\ keyboard' = kb
    /\ reply' = r
    /\ last' = [op |-> op, input |-> input, state |-> fsm, data |-> fsm_data]
    /\ UNCHANGED <<gateVars, kwOrder, catalog, inited, mappingVars, fnVars>>

-----------------------------------------------------------------------------
(* handlers/start.py and main.py *)

home_menu ==
    <<Button("Today", "cmd:today"), Button("7 days", "cmd:week"),
      Button("30 days", "cmd:month"),
      Button("Weight", "cmd:weight"), Button("Steps", "cmd:steps"),
      Button("Sleep", "cmd:sleep"),
      Button("Heart", "cmd:heart"), Button("Tables", "cmd:tables"),
      Button("Query", "cmd:query"),
      Button("Health", "cmd:health")>>

cb_start ==
    /\ Polling
    /\ \E data \in Pressable :
        /\ data = "cmd:start"
        /\ Respond("cb_start", data, fsm, fsm_data, <<>>, home_menu, "DB Explorer")

_noop ==
    /\ Polling
    /\ \E data \in Pressable :
        /\ data = "noop"
        /\ Respond("_noop", data, fsm, fsm_data, <<>>, keyboard, "")

-----------------------------------------------------------------------------
(* handlers/weight.py, steps.py, sleep.py, heart.py *)

MODULE_(d) ==
    CASE d = "weight" -> "wt"
      [] d = "steps"  -> "st"
      [] d = "sleep"  -> "sl"
      [] d = "heart"  -> "hr"

extra_buttons(d) ==
    CASE d = "weight" -> weight_actions
      [] d = "steps"  -> steps_actions
      [] d = "sleep"  -> <<>>
      [] d = "heart"  -> _heart_actions

Listed(q, raised, one, text, offset, total) ==
    [q |-> q, raised |-> raised, one |-> one, text |-> text,
     offset |-> offset, total |-> total]

\* _weight_list, _steps_list, _sleep_list, _heart_list: one is TRUE when the
\* result is the 1-tuple (text,).
_list(d, offset, db) ==
    IF ~available(d)
    THEN Listed(<<>>, FALSE, TRUE, d \o " table not found.", offset, 0)
    ELSE
        LET rows  == recent(d, page_size, offset, 1, db)
            total == count(d, 2, db)
            avg7  == avg_steps(3, db)
            avg30 == avg_steps(4, db)
        IN  IF rows.raised THEN Listed(rows.q, TRUE, FALSE, "", offset, 0)
            ELSE IF total.raised
            THEN Listed(rows.q \o total.q, TRUE, FALSE, "", offset, 0)
            ELSE IF rows.val = 0
            THEN Listed(rows.q \o total.q, FALSE, TRUE, "No " \o d \o " records.", offset, 0)
            ELSE IF d # "steps"
            THEN Listed(rows.q \o total.q, FALSE, FALSE, d, offset, total.val)
            ELSE IF avg7.raised
            THEN Listed(rows.q \o total.q \o avg7.q, TRUE, FALSE, "", offset, 0)
            ELSE IF avg30.raised
            THEN Listed(rows.q \o total.q \o avg7.q \o avg30.q, TRUE, FALSE, "", offset, 0)
            ELSE Listed(rows.q \o total.q \o avg7.q \o avg30.q, FALSE, FALSE,
                        d, offset, total.val)

\* What cmd_<d>, cb_<d> and cb_<d>_page do with the result of _list.
ShowList(op, input, d, result, on_error_alert) ==
    IF result.raised
    THEN IF on_error_alert
         THEN Respond(op, input, fsm, fsm_data, result.q, keyboard, "DB error")
         ELSE Respond(op, input, fsm, fsm_data, result.q, <<>>, "<i>DB unavailable.</i>")
    ELSE IF result.one
    THEN Respond(op, input, fsm, fsm_data, result.q, back_keyboard("cmd:start"), result.text)
    ELSE Respond(op, input, fsm, fsm_data, result.q,
                 paginated_keyboard(MODULE_(d), result.offset, page_size, result.total,
                                    "", extra_buttons(d)),
                 result.text)

\* cmd_weight, cmd_steps, cmd_sleep, cmd_heart: the /weight ... commands
cmd_list(d) ==
    /\ Polling
    /\ \E db \in DbAnswers(IF d = "steps" THEN 4 ELSE 2, Counts, {0, 1}) :
        ShowList("cmd_" \o d, "/" \o d, d, _list(d, 0, db), FALSE)

\* cb_weight, cb_steps, cb_sleep, cb_heart
cb_list(d) ==
    /\ Polling
    /\ \E data \in Pressable, db \in DbAnswers(IF d = "steps" THEN 4 ELSE 2, Counts, {0, 1}) :
        /\ data = "cmd:" \o d
        /\ ShowList("cb_" \o d, data, d, _list(d, 0, db), FALSE)

\* cb_weight_page, cb_steps_page, cb_sleep_page, cb_heart_page
cb_page(d) ==
    /\ Polling
    /\ \E data \in Pressable, db \in DbAnswers(IF d = "steps" THEN 4 ELSE 2, Counts, {0, 1}) :
        /\ str_startswith(data, "p:" \o MODULE_(d) \o ":")
        /\ LET decoded == decode(data)
           IN  IF decoded.raised
               THEN Respond("cb_" \o d \o "_page", data, fsm, fsm_data, <<>>, keyboard, Raised)
               ELSE ShowList("cb_" \o d \o "_page", data, d,
                             _list(d, decoded.offset, db), TRUE)

-----------------------------------------------------------------------------
(* handlers/tables.py *)

BROWSE_MODULE == "brw"

\* _tables_text: val is the (label, callback data) items.
_tables_text(db) ==
    LET tables == list_tables(db)
    IN  IF tables.raised THEN Result(tables.q, TRUE, <<>>)
        ELSE Result(tables.q, FALSE,
                    [i \in 1..Len(tables.val) |->
                        Button(tables.val[i], "tbl:pick:" \o tables.val[i])])

ShowTables(op, input, result) ==
    IF result.raised
    THEN Respond(op, input, fsm, fsm_data, result.q, <<>>, "<i>DB unavailable.</i>")
    ELSE IF result.val = <<>>
    THEN Respond(op, input, fsm, fsm_data, result.q, back_keyboard("cmd:start"),
                 "No tables in public schema.")
    ELSE Respond(op, input, fsm, fsm_data, result.q, drill_down(result.val), "Tables")

cmd_tables ==
    /\ Polling
    /\ \E db \in DbAnswers(1, {0}, {0}) : ShowTables("cmd_tables", "/tables", _tables_text(db))

cb_tables ==
    /\ Polling
    /\ \E data \in Pressable, db \in DbAnswers(1, {0}, {0}) :
        /\ data = "cmd:tables"
        /\ ShowTables("cb_tables", data, _tables_text(db))

cb_table_pick ==
    /\ Polling
    /\ \E data \in Pressable :
        /\ str_startswith(data, "tbl:pick:")
        /\ LET table == str_split_max(data, ":", 2)[3]
           IN  Respond("cb_table_pick", data, fsm, fsm_data, <<>>,
                       table_actions(table) \o <<back_button("cmd:tables")>>,
                       "Table " \o table)

\* _describe_text
_describe_text(table, db) ==
    LET described == describe_table(table, db)
    IN  IF described.raised THEN Result(described.q, TRUE, "")
        ELSE IF described.val = <<>>
        THEN Result(described.q, FALSE, "Table '" \o table \o "' not found or has no columns.")
        ELSE Result(described.q, FALSE, "Table: " \o table)

cb_describe ==
    /\ Polling
    /\ \E data \in Pressable, db \in DbAnswers(2, {0}, {0}) :
        /\ str_startswith(data, "tbl:desc:")
        /\ LET table == str_split_max(data, ":", 2)[3]
               text  == _describe_text(table, db)
           IN  Respond("cb_describe", data, fsm, fsm_data, text.q,
                       back_keyboard("cmd:tables"),
                       IF text.raised THEN "<i>DB unavailable.</i>" ELSE text.val)

\* _browse_text: val is [text, offset, total].
_browse_text(table, offset, db) ==
    LET browsed == browse_table(table, browse_page_size, offset, db)
    IN  IF browsed.raised THEN Result(browsed.q, TRUE, <<>>)
        ELSE IF browsed.val.rows = 0
        THEN Result(browsed.q, FALSE,
                    [text |-> "No rows in '" \o table \o "'.", offset |-> offset,
                     total |-> browsed.val.total])
        ELSE Result(browsed.q, FALSE,
                    [text |-> "Browse: " \o table, offset |-> offset,
                     total |-> browsed.val.total])

cb_browse ==
    /\ Polling
    /\ \E data \in Pressable, db \in DbAnswers(2, Counts, {0, 1}) :
        /\ str_startswith(data, "p:" \o BROWSE_MODULE \o ":")
        /\ LET decoded == decode(data)
               page    == _browse_text(decoded.extra, decoded.offset, db)
           IN  IF decoded.raised
               THEN Respond("cb_browse", data, fsm, fsm_data, <<>>, keyboard, Raised)
               ELSE IF decoded.extra = ""
               THEN Respond("cb_browse", data, fsm, fsm_data, <<>>, keyboard,
                            "Missing table name.")
               ELSE IF page.raised
               THEN Respond("cb_browse", data, fsm, fsm_data, page.q, keyboard, "DB error")
               ELSE Respond("cb_browse", data, fsm, fsm_data, page.q,
                            paginated_keyboard(BROWSE_MODULE, page.val.offset,
                                               browse_page_size, page.val.total,
                                               decoded.extra, <<>>),
                            page.val.text)

-----------------------------------------------------------------------------
(* handlers/period.py *)

\* The drill-down tokens: the two that period_drill offers under the week
\* and month summaries, and one whose offset is not a number.
DrillTokens == {"drill:week:0", "drill:month:0", "drill:week:x"}

\* cb_drill: the daily weight and steps rows of the period.  The two
\* in_range calls are awaited outside any try block, so a failure of either
\* leaves the handler as an exception.
cb_drill ==
    /\ Polling
    /\ \E data \in Pressable \cup DrillTokens, db \in DbAnswers(2, {0}, {0, 1}) :
        /\ str_startswith(data, "drill:")
        /\ LET parts  == str_split(data, ":")
               period == IF Len(parts) > 1 THEN parts[2] ELSE "week"
               offset == IF Len(parts) > 2 THEN str_to_int(parts[3])
                         ELSE [ok |-> TRUE, val |-> 0]
               wrows  == in_range("weight", 1, db)
               srows  == in_range("steps", IF wrows.q = <<>> THEN 1 ELSE 2, db)
           IN  IF ~offset.ok
               THEN Respond("cb_drill", data, fsm, fsm_data, <<>>, keyboard, Raised)
               ELSE IF wrows.raised
               THEN Respond("cb_drill", data, fsm, fsm_data, wrows.q, keyboard, Raised)
               ELSE IF srows.raised
               THEN Respond("cb_drill", data, fsm, fsm_data, wrows.q \o srows.q,
                            keyboard, Raised)
               ELSE Respond("cb_drill", data, fsm, fsm_data, wrows.q \o srows.q,
                            back_keyboard("cmd:" \o period),
                            IF wrows.val = 0 /\ srows.val = 0
                            THEN "No daily rows found." ELSE "Daily rows")

-----------------------------------------------------------------------------
(* utils/security.py and middleware.py *)

\* TG_ALLOWED_USER_ID, and who may send an update: the operator, a stranger,
\* and an update that carries no sender (NoneInt).
allowed_user_id == 1
Users == {allowed_user_id, allowed_user_id + 1, NoneInt}

\* main() registers one AuthMiddleware and one RateLimitMiddleware on
\* dp.message and another of each on dp.callback_query.
Kinds == {"message", "callback_query"}

\* The limiter, instantiated with a small limit and a short window.
max_calls == 2
window == 2
MaxNow == 2

\* RateLimitMiddleware.__init__ of both instances, and the clock at its start.
Constructed ==
    /\ now = 0
    /\ _timestamps = [k \in Kinds |-> [u \in Users |-> <<>>]]
    /\ handled = <<>>

\* A faulty variant: an update without a sender counts as the operator's.
is_authorized_absentPasses(user_id, allowed_id) ==
    user_id = NoneInt \/ user_id = allowed_id

is_authorized(user_id, allowed_id) ==
    IF user_id = NoneInt THEN FALSE ELSE user_id = allowed_id

\* AuthMiddleware.__call__: the denial it answers with, None when it calls
\* the next handler of the chain.
AuthMiddleware(kind, user_id) ==
    IF ~is_authorized(user_id, allowed_user_id)
    THEN IF kind = "message" THEN "Sorry, this bot is private." ELSE "Access denied."
    ELSE None

\* RateLimitMiddleware.__call__ at time t on the instance whose _timestamps
\* is ts: the _timestamps it leaves, and the rejection it answers with (None
\* when it calls the handler).
RateLimitMiddleware(ts, kind, uid, t) ==
    IF uid = NoneInt THEN [ts |-> ts, reject |-> None]
    ELSE LET cutoff == t - window
             kept   == SelectSeq(ts[uid], LAMBDA x : x > cutoff)
         IN  IF Len(kept) >= max_calls
             THEN [ts |-> [ts EXCEPT ![uid] = kept],
                   reject |-> IF kind = "message" THEN "Slow down! Too many requests."
                              ELSE "Too many requests. Wait a moment."]
             ELSE [ts |-> [ts EXCEPT ![uid] = Append(kept, t)], reject |-> None]

\* One update, a /tables message or a press of the Tables button, fed to the
\* dispatcher by a user: the outer AuthMiddleware, then the RateLimitMiddleware
\* of the update's kind, then cmd_tables or cb_tables.
feed_update ==
    /\ Polling
    /\ \E kind \in Kinds, user \in Users, db \in DbAnswers(1, {0}, {0}) :
        LET denial == AuthMiddleware(kind, user)
            limit  == RateLimitMiddleware(_timestamps[kind], kind, user, now)
            result == _tables_text(db)
        IN  /\ IF denial # None
               THEN /\ UNCHANGED <<_timestamps, handled, keyboard>>
                    /\ issued' = <<>>
                    /\ reply' = denial
               ELSE IF limit.reject # None
               THEN /\ _timestamps' = [_timestamps EXCEPT ![kind] = limit.ts]
                    /\ UNCHANGED <<handled, keyboard>>
                    /\ issued' = <<>>
                    /\ reply' = limit.reject
               ELSE /\ _timestamps' = [_timestamps EXCEPT ![kind] = limit.ts]
                    /\ handled' = Append(handled, [kind |-> kind, user |-> user, at |-> now])
                    /\ issued' = result.q
                    /\ keyboard' = IF result.raised THEN <<>>
                                   ELSE IF result.val = <<>> THEN back_keyboard("cmd:start")
                                   ELSE drill_down(result.val)
                    /\ reply' = IF result.raised THEN "<i>DB unavailable.</i>"
                                ELSE IF result.val = <<>> THEN "No tables in public schema."
                                ELSE "Tables"
            /\ last' = [op |-> "feed_update", input |-> [kind |-> kind, user |-> user],
                        state |-> fsm, data |-> fsm_data]
    /\ UNCHANGED <<kwOrder, catalog, inited, mappingVars, sessionVars, fnVars, now>>

\* A second passes on the monotonic clock.
tick ==
    /\ Polling
    /\ now < MaxNow
    /\ now' = now + 1
    /\ UNCHANGED <<kwOrder, botVars, fnVars, _timestamps, handled>>

-----------------------------------------------------------------------------
(* Inputs of the pure functions *)

MaxIdentLen == 3
IdentAlphabet == {"a", "Z", "_", "7", " ", "\t", "\n", "'", "\"", ";"}
IdentInputs == StringsUpTo(IdentAlphabet, MaxIdentLen)

MaxSqlFragments == 3
SqlFragments ==
    {"SELECT ", "select", " drop", "UPDATE", "Create", "created_at",
     "s", "_", ";", " ", "x"}
SqlInputs == StringsUpTo(SqlFragments, MaxSqlFragments)

MaxTokenFragments == 4
TokenFragments == {"p:wt:", "p:brw:", ":", "0", "20", "-5", "x", "noop", "weight"}
TokenInputs == StringsUpTo(TokenFragments, MaxTokenFragments)

MaxOffset == 45
EncodeModules == {"wt", "brw", "", "a:b"}
EncodeExtras  == {"", "weight", "my table", "a:b"}
EncodeInputs ==
    {[module |-> m, offset |-> o, extra |-> e] :
        m \in EncodeModules, o \in -1..MaxOffset, e \in EncodeExtras}

-----------------------------------------------------------------------------
(* The pure functions, each applied once to an input drawn at the start *)

\* Statements handed to ensure_limit: with and without a LIMIT clause, in
\* either case, with a column whose name merely contains the word, and with
\* trailing blanks and semicolons.
MaxLimitFragments == 3
LimitFragments ==
    {"SELECT * FROM t", "SELECT limits FROM t", " LIMIT 5", " limit 5",
     " LIMIT 100", ";", " "}
LimitRows == {10, 100}
LimitInputs ==
    [sql : StringsUpTo(LimitFragments, MaxLimitFragments), max_rows : LimitRows]

\* Calls of browse_table: names that pass and names that fail the identifier
\* check, existing and missing tables, page windows of either sign.
BrowseNames ==
    {"users; DROP TABLE users", "my table", "", "t\n", "weight", "7up", "sleep"}
MaxBrowseLimit == 20
BrowseLimits == {-1, 0, MaxBrowseLimit}
BrowseOffsets == {-MaxBrowseLimit, 0, MaxBrowseLimit}
BrowseInputs ==
    [table : BrowseNames, limit : BrowseLimits, offset : BrowseOffsets,
     db : DbAnswers(2, Counts, {0, 1})]

\* Calls of _first_match: column lists without repetition, in any order and
\* letter case, against the candidate lists of the domain modules.
MaxColumns == 3
ColumnNames ==
    {"id", "measured_at", "weight_kg", "date", "Date", "time", "weight", "start"}
ColumnLists ==
    UNION {{cols \in [1..n -> ColumnNames] :
               \A i, j \in 1..n : cols[i] = cols[j] => i = j} : n \in 0..MaxColumns}
CandidateLists ==
    {_DATE_CANDIDATES("weight"), _VALUE_CANDIDATES("weight"),
     _DATE_CANDIDATES("sleep"), _START_CANDIDATES, _DURATION_CANDIDATES}
MatchInputs == [available_cols : ColumnLists, candidates : CandidateLists]

\* The bot's state right after the modules are imported: nothing resolved,
\* no session, nothing sent.
Imported ==
    /\ inited = {}
    /\ _table = [d \in Domains |-> None]
    /\ _date_col = [d \in Domains |-> None]
    /\ _value_col = [d \in Domains |-> None]
    /\ _start_col = None
    /\ _duration_col = None
    /\ results = [d \in Domains |-> "pending"]
    /\ fsm = None
    /\ fsm_data = None
    /\ issued = <<>>
    /\ keyboard = <<>>
    /\ reply = None
    /\ last = [op |-> "import", input |-> None, state |-> None, data |-> None]

\* Paginated lists to walk: the domain lists and the table browser, over
\* totals around the page boundaries.
WalkTotals ==
    {0, 1, page_size, page_size + 1, browse_page_size, MaxTotal, 2 * browse_page_size + 1}
WalkInputs ==
    [module : {"wt"}, extra : {""}, page_size : {page_size}, total : WalkTotals]
        \cup [module : {BROWSE_MODULE}, extra : {"weight"},
              page_size : {browse_page_size}, total : WalkTotals]

InitFn ==
    /\ Imported
    /\ Constructed
    /\ pc = "call"
    /\ \/ catalog = CatalogEmpty /\ fn = "_safe_identifier" /\ arg \in IdentInputs /\ kwOrder = SourceOrder
       \/ catalog = CatalogEmpty /\ fn = "validate_select" /\ arg \in SqlInputs /\ kwOrder \in KeywordOrders
       \/ catalog = CatalogEmpty /\ fn = "decode" /\ arg \in TokenInputs /\ kwOrder = SourceOrder
       \/ catalog = CatalogEmpty /\ fn = "encode_decode" /\ arg \in EncodeInputs /\ kwOrder = SourceOrder
       \/ catalog = CatalogEmpty /\ fn = "ensure_limit" /\ arg \in LimitInputs /\ kwOrder = SourceOrder
       \/ catalog \in Catalogs /\ fn = "browse_table" /\ arg \in BrowseInputs
          /\ kwOrder = SourceOrder
       \/ catalog = CatalogEmpty /\ fn = "_first_match" /\ arg \in MatchInputs
          /\ kwOrder = SourceOrder
       \/ catalog = CatalogEmpty /\ fn = "paginator" /\ arg \in WalkInputs
          /\ kwOrder = SourceOrder
    /\ res = None

Call_safe_identifier ==
    /\ pc = "call" /\ fn = "_safe_identifier"
    /\ res' = _safe_identifier(arg)
    /\ pc' = "done"
    /\ UNCHANGED <<gateVars, kwOrder, botVars, fn, arg>>

Call_validate_select ==
    /\ pc = "call" /\ fn = "validate_select"
    /\ res' = validate_select(arg)
    /\ pc' = "done"
    /\ UNCHANGED <<gateVars, kwOrder, botVars, fn, arg>>

Call_decode ==
    /\ pc = "call" /\ fn = "decode"
    /\ res' = decode(arg)
    /\ pc' = "done"
    /\ UNCHANGED <<gateVars, kwOrder, botVars, fn, arg>>

Call_encode_decode ==
    /\ pc = "call" /\ fn = "encode_decode"
    /\ res' = decode(encode(arg.module, arg.offset, arg.extra))
    /\ pc' = "done"
    /\ UNCHANGED <<gateVars, kwOrder, botVars, fn, arg>>

\* ensure_limit applied once, and applied again to its own result.
Call_ensure_limit ==
    /\ pc = "call" /\ fn = "ensure_limit"
    /\ res' = [once |-> ensure_limit(arg.sql, arg.max_rows),
               twice |-> ensure_limit(ensure_limit(arg.sql, arg.max_rows),
                                      arg.max_rows)]
    /\ pc' = "done"
    /\ UNCHANGED <<gateVars, kwOrder, botVars, fn, arg>>

Call_browse_table ==
    /\ pc = "call" /\ fn = "browse_table"
    /\ res' = browse_table(arg.table, arg.limit, arg.offset, arg.db)
    /\ pc' = "done"
    /\ UNCHANGED <<gateVars, kwOrder, botVars, fn, arg>>

Call_first_match ==
    /\ pc = "call" /\ fn = "_first_match"
    /\ res' = _first_match(arg.available_cols, arg.candidates)
    /\ pc' = "done"
    /\ UNCHANGED <<gateVars, kwOrder, botVars, fn, arg>>

\* One step of a walk through a paginated list whose total stays the same:
\* the paginator row of the current offset (0 at the start) is shown, its
\* Prev or Next button is pressed, and the handler decodes the button's token
\* into the offset of the page it shows next.
Follow_paginator ==
    /\ fn = "paginator"
    /\ LET offset == IF pc = "call" THEN 0 ELSE res.offset
           row    == paginator(arg.module, offset, arg.page_size, arg.total, arg.extra)
       IN  \E i \in 1..Len(row) :
               /\ row[i].data # "noop"
               /\ ~decode(row[i].data).raised
               /\ res' = [from |-> offset, via |-> row[i].text,
                          offset |-> decode(row[i].data).offset]
    /\ pc' = "done"
    /\ UNCHANGED <<gateVars, kwOrder, botVars, fn, arg>>

NextFn ==
    \/ Call_safe_identifier
    \/ Call_validate_select
    \/ Call_decode
    \/ Call_encode_decode
    \/ Call_ensure_limit
    \/ Call_browse_table
    \/ Call_first_match
    \/ Follow_paginator

SpecFn == InitFn /\ [][NextFn]_vars

-----------------------------------------------------------------------------
(* handlers/query.py: the advanced-query session *)

\* QueryStates; None is "no state".
QueryStates == {"choose_mode", "pick_table", "pick_limit", "enter_sql"}

_mode_keyboard ==
    <<Button("Guided builder", "q:guided"), Button("Raw SQL", "q:raw"),
      back_button("cmd:start")>>

\* What the operator types in raw mode: texts put together from fragments.
MaxRawFragments == 2
RawFragments ==
    {"SELECT * FROM weight", "SELECT limits FROM t", " LIMIT 1000",
     ";", " DROP TABLE t", " "}
RawTexts == StringsUpTo(RawFragments, MaxRawFragments)

\* cmd_query sets the state and leaves the stored data alone.
cmd_query ==
    /\ Polling
    /\ Respond("cmd_query", "/q", "choose_mode", fsm_data, <<>>, _mode_keyboard,
               "Choose a mode:")

cb_query_entry ==
    /\ Polling
    /\ \E data \in Pressable :
        /\ data = "cmd:query"
        /\ Respond("cb_query_entry", data, "choose_mode", fsm_data, <<>>,
                   _mode_keyboard, "Choose a mode:")

\* tables[:20]
Head20(tables) == SubSeq(tables, 1, IF Len(tables) < 20 THEN Len(tables) ELSE 20)

cb_guided_start ==
    /\ Polling
    /\ fsm = "choose_mode"
    /\ \E data \in Pressable, db \in DbAnswers(1, {0}, {0}) :
        /\ data = "q:guided"
        /\ LET tables == list_tables(db)
               shown  == Head20(tables.val)
           IN  IF tables.raised
               THEN Respond("cb_guided_start", data, fsm, fsm_data, tables.q, keyboard,
                            "DB error")
               ELSE IF tables.val = <<>>
               THEN Respond("cb_guided_start", data, None, None, tables.q,
                            back_keyboard("cmd:start"), "No tables found.")
               ELSE Respond("cb_guided_start", data, "pick_table", fsm_data, tables.q,
                            [i \in 1..Len(shown) |-> Button(shown[i], "q:tbl:" \o shown[i])]
                                \o <<back_button("cmd:query")>>,
                            "Step 1: Pick a table")

\* A faulty variant: the step moves on without storing the picked table.
cb_guided_table_storesNothing ==
    /\ Polling
    /\ fsm = "pick_table"
    /\ \E data \in Pressable :
        /\ str_startswith(data, "q:tbl:")
        /\ Respond("cb_guided_table", data, "pick_limit", fsm_data, <<>>,
                   <<Button("10 rows", "q:lim:10"), Button("50 rows", "q:lim:50"),
                     Button("100 rows", "q:lim:100"), back_button("cmd:query")>>,
                   "Step 2: Pick row limit")

cb_guided_table ==
    /\ Polling
    /\ fsm = "pick_table"
    /\ \E data \in Pressable :
        /\ str_startswith(data, "q:tbl:")
        /\ LET table == str_split_max(data, ":", 2)[3]
           IN  Respond("cb_guided_table", data, "pick_limit", table, <<>>,
                       <<Button("10 rows", "q:lim:10"), Button("50 rows", "q:lim:50"),
                         Button("100 rows", "q:lim:100"), back_button("cmd:query")>>,
                       "Step 2: Pick row limit")

cb_guided_limit ==
    /\ Polling
    /\ fsm = "pick_limit"
    /\ \E data \in Pressable, db \in DbAnswers(2, Counts, {0, 1}) :
        /\ str_startswith(data, "q:lim:")
        /\ LET limit   == str_to_int(str_split(data, ":")[3])
               table   == IF fsm_data = None THEN "" ELSE fsm_data
               browsed == browse_table(table, limit.val, 0, db)
           IN  IF ~limit.ok
               THEN Respond("cb_guided_limit", data, fsm, fsm_data, <<>>, keyboard, Raised)
               ELSE IF table = "" \/ ~_safe_identifier(table)
               THEN Respond("cb_guided_limit", data, None, None, <<>>, keyboard,
                            "Invalid table.")
               ELSE IF browsed.raised
               THEN Respond("cb_guided_limit", data, None, None, browsed.q, keyboard,
                            "DB error")
               ELSE IF browsed.val.rows = 0
               THEN Respond("cb_guided_limit", data, None, None, browsed.q,
                            back_keyboard("cmd:query"), "No rows in '" \o table \o "'.")
               ELSE Respond("cb_guided_limit", data, None, None, browsed.q,
                            back_keyboard("cmd:query"), "Query Result: " \o table)

\* A faulty variant: registered without the state filter.
cb_raw_start_anyState ==
    /\ Polling
    /\ \E data \in Pressable :
        /\ data = "q:raw"
        /\ Respond("cb_raw_start", data, "enter_sql", fsm_data, <<>>,
                   back_keyboard("cmd:query"),
                   "Rules: SELECT only, no semicolons, max 100 rows.")

cb_raw_start ==
    /\ Polling
    /\ fsm = "choose_mode"
    /\ \E data \in Pressable :
        /\ data = "q:raw"
        /\ Respond("cb_raw_start", data, "enter_sql", fsm_data, <<>>,
                   back_keyboard("cmd:query"),
                   "Rules: SELECT only, no semicolons, max 100 rows.")

\* A faulty variant: the state is reset and the stored data stays.
cmd_cancel_keepsData ==
    /\ Polling
    /\ Respond("cmd_cancel", "/cancel", None, fsm_data, <<>>,
               back_keyboard("cmd:start"), "Cancelled.")

cmd_cancel ==
    /\ Polling
    /\ Respond("cmd_cancel", "/cancel", None, None, <<>>, back_keyboard("cmd:start"),
               "Cancelled.")

\* msg_raw_sql; text = None is a message without text (a photo, a sticker),
\* on which message.text.strip() raises before the state is cleared.
msg_raw_sql ==
    /\ Polling
    /\ fsm = "enter_sql"
    /\ \E text \in RawTexts \cup {None} :
        LET sql     == str_strip(text)
            error   == validate_select(sql)
            limited == ensure_limit(sql, 100)
        IN  IF text = None
            THEN Respond("msg_raw_sql", text, fsm, fsm_data, <<>>, keyboard, Raised)
            ELSE IF error # None
            THEN Respond("msg_raw_sql", text, None, None, <<>>,
                         back_keyboard("cmd:query"), error)
            ELSE \E db \in {a \in DbAnswers(4, {0}, {0, 1}) : a.fail = 0 \/ a.nrows = 0} :
                LET rows == execute_readonly(limited, db)
                IN  IF rows.raised
                    THEN Respond("msg_raw_sql", text, None, None, rows.q,
                                 back_keyboard("cmd:query"), "SQL Error")
                    ELSE IF rows.val = 0
                    THEN Respond("msg_raw_sql", text, None, None, rows.q,
                                 back_keyboard("cmd:query"), "Query returned no rows.")
                    ELSE Respond("msg_raw_sql", text, None, None, rows.q,
                                 back_keyboard("cmd:query"), "Query Result")

\* The filters of the query router's callback handlers: the data and the
\* session state a handler is registered for.
QueryFilter(data, state) ==
    \/ data = "cmd:query"
    \/ data = "q:guided" /\ state = "choose_mode"
    \/ str_startswith(data, "q:tbl:") /\ state = "pick_table"
    \/ str_startswith(data, "q:lim:") /\ state = "pick_limit"
    \/ data = "q:raw" /\ state = "choose_mode"

\* A callback of the query flow that no handler's filter accepts in the
\* current state: the dispatcher drops the update.
unhandled_callback ==
    /\ Polling
    /\ \E data \in Pressable :
        /\ str_startswith(data, "q:")
        /\ ~QueryFilter(data, fsm)
        /\ Respond("unhandled", data, fsm, fsm_data, <<>>, keyboard, reply)

\* Messages that are no commands: a statement, and a message without text.
PlainTexts == {"SELECT * FROM weight", None}

\* A message that is no command, outside raw mode: no handler takes it.
unhandled_message ==
    /\ Polling
    /\ fsm # "enter_sql"
    /\ \E text \in PlainTexts :
        Respond("unhandled", text, fsm, fsm_data, <<>>, keyboard, reply)

-----------------------------------------------------------------------------
(* tests/verify_db.py *)

\* run_verification: the script connects to the same database and exercises
\* the helpers of db.py on the first table of the catalog.
run_verification ==
    /\ \E db \in DbAnswers(5, {0}, {0}) :
        LET tables  == get_tables("public", 1, db)
            target_table == tables.val[1]
            columns == get_table_columns(target_table, "public", 2, db)
            pk      == get_primary_key(target_table, "public", 3, db)
            cnt     == get_row_count(target_table, "public", 4, db)
            rows    == get_rows(target_table, "public", 3, 0, None, 5, db)
        IN  issued' =
                IF tables.raised \/ tables.val = <<>> THEN tables.q
                ELSE IF columns.raised THEN tables.q \o columns.q
                ELSE IF pk.raised THEN tables.q \o columns.q \o pk.q
                ELSE IF cnt.raised THEN tables.q \o columns.q \o pk.q \o cnt.q
                ELSE tables.q \o columns.q \o pk.q \o cnt.q \o rows.q
    /\ last' = [op |-> "run_verification", input |-> "", state |-> fsm, data |-> fsm_data]
    /\ UNCHANGED <<gateVars, kwOrder, catalog, inited, mappingVars, sessionVars, keyboard, reply, fnVars>>

-----------------------------------------------------------------------------
(* The bot *)

\* The texts typed in a session carry one blocked keyword at most, so the
\* order in which the keyword set is walked shows in no reply: one order.
Init ==
    /\ kwOrder = SourceOrder
    /\ catalog \in Catalogs
    /\ Imported
    /\ Constructed
    /\ pc = "idle" /\ fn = None /\ arg = None /\ res = None

\* Startup alone, over catalogs that hold a selection of these tables, so
\* that several candidates of one domain can exist side by side.
StartupTables ==
    <<Table("body_weight", <<"date", "kg">>),
      Table("heart_rate", <<"time", "bpm">>),
      Table("heartrate", <<"day", "value">>),
      Table("measurements_weight", <<"id", "value">>),
      Table("sleep", <<"night", "duration">>),
      Table("sleep_sessions", <<"id", "duration">>),
      Table("steps", <<"Date", "steps">>),
      Table("weight", <<"id", "measured_at", "weight_kg">>)>>

RECURSIVE Selection(_, _)
Selection(tables, S) ==
    IF tables = <<>> THEN <<>>
    ELSE LET front == Selection(SubSeq(tables, 1, Len(tables) - 1), S)
         IN  IF Len(tables) \in S THEN Append(front, tables[Len(tables)]) ELSE front

\* The tables that come and go between catalogs; the others are always there.
OptionalTables == {"body_weight", "measurements_weight", "sleep_sessions", "weight"}

StartupCatalogs ==
    {Selection(StartupTables,
               {i \in 1..Len(StartupTables) :
                   StartupTables[i].name \in OptionalTables => i \in S}) :
        S \in SUBSET {i \in 1..Len(StartupTables) :
                         StartupTables[i].name \in OptionalTables}}

InitStartup ==
    /\ kwOrder = SourceOrder
    /\ catalog \in StartupCatalogs
    /\ Imported
    /\ Constructed
    /\ pc = "idle" /\ fn = None /\ arg = None /\ res = None

\* A query operation of domain module d called once startup is over: its
\* result is kept in res.
domain_query(d) ==
    /\ Polling
    /\ \E op \in {"recent", "count"}, db \in DbAnswers(1, {MaxTotal}, {1}) :
        LET result == IF op = "recent" THEN recent(d, page_size, 0, 1, db)
                      ELSE count(d, 1, db)
        IN  /\ issued' = result.q
            /\ res' = result
            /\ last' = [op |-> op, input |-> d, state |-> fsm, data |-> fsm_data]
    /\ UNCHANGED <<gateVars, kwOrder, catalog, inited, mappingVars, sessionVars, keyboard,
                   reply, pc, fn, arg>>

NextStartup ==
    \/ \E d \in Domains : init(d)
    \/ \E d \in Domains : init_raises(d)
    \/ \E d \in Domains : domain_query(d)

SpecStartup == InitStartup /\ [][NextStartup]_vars

\* The query session: the handlers of the query router, with the home menu
\* and the no-op button beside them.
NextQuery ==
    \/ \E d \in Domains : init(d)
    \/ cb_start
    \/ _noop
    \/ cmd_query
    \/ cb_query_entry
    \/ cb_guided_start
    \/ cb_guided_table
    \/ cb_guided_limit
    \/ cb_raw_start
    \/ cmd_cancel
    \/ msg_raw_sql
    \/ unhandled_callback
    \/ unhandled_message

SpecQuery == Init /\ [][NextQuery]_vars

\* Browsing: the domain lists, the table browser and the verification script.
\* None of these handlers reads or writes the query session.
NextBrowse ==
    \/ \E d \in Domains : init(d)
    \/ run_verification
    \/ cb_start
    \/ _noop
    \/ \E d \in Domains : cmd_list(d)
    \/ \E d \in Domains : cb_list(d)
    \/ \E d \in Domains : cb_page(d)
    \/ cmd_tables
    \/ cb_tables
    \/ cb_table_pick
    \/ cb_describe
    \/ cb_browse
    \/ cb_drill

SpecBrowse == Init /\ [][NextBrowse]_vars

\* The gate in front of the handlers: the operator, a stranger and senderless
\* updates, over a database that holds the typical tables.
InitGate == Init /\ catalog = CatalogTypical

NextGate ==
    \/ \E d \in Domains : init(d)
    \/ feed_update
    \/ tick

SpecGate == InitGate /\ [][NextGate]_vars

-----------------------------------------------------------------------------
(* What the claims about the validators and the codec speak of *)

\* The safe-identifier grammar ^[A-Za-z_][A-Za-z0-9_]*$ read as a grammar of
\* whole strings: a letter or underscore, then letters, digits, underscores.
MatchesGrammar(name) ==
    /\ Len(name) >= 1
    /\ CharAt(name, 1) \in LowerSet \cup UpperSet \cup {"_"}
    /\ \A i \in 2..Len(name) : CharAt(name, i) \in LowerSet \cup UpperSet \cup DigitSet \cup {"_"}

HasCharIn(s, chars) == \E i \in 1..Len(s) : CharAt(s, i) \in chars

\* The strings the claim says are rejected.
MustBeRejected(name) ==
    \/ name = ""
    \/ HasCharIn(name, {" ", "\t", "\n"})
    \/ HasCharIn(name, {"'", "\""})
    \/ HasCharIn(name, {";"})
    \/ CharAt(name, 1) \in DigitSet

\* Rule 1: the trimmed text starts with SELECT in any letter case.
StartsWithSelect(text) ==
    LET t == str_strip(text)
    IN  /\ Len(t) >= 6
        /\ \A i \in 1..6 : UpperChar(CharAt(t, i)) = CharAt("SELECT", i)

\* Rule 2: the text contains a semicolon.
HasSemicolon(text) == HasCharIn(text, {";"})

\* text[i..j] is a whole word: a maximal run of letters, digits, underscores.
WordAt(text, i, j) ==
    /\ i <= j
    /\ \A k \in i..j : IsWordChar(CharAt(text, k))
    /\ (i = 1 \/ ~IsWordChar(CharAt(text, i - 1)))
    /\ (j = Len(text) \/ ~IsWordChar(CharAt(text, j + 1)))

\* Rule 3: the blocked keywords that occur in the text as whole words, in any
\* letter case.
BlockedWordsIn(text) ==
    {kw \in _BLOCKED_KEYWORDS :
        \E i \in 1..(Len(text) - Len(kw) + 1) :
            /\ WordAt(text, i, i + Len(kw) - 1)
            /\ str_upper(SubSeq(text, i, i + Len(kw) - 1)) = kw}

IsKeywordError(err) == \E kw \in _BLOCKED_KEYWORDS : err = ErrKeyword(kw)

-----------------------------------------------------------------------------
(* Claims about the pure functions, checked under SpecFn *)

\* C3: _safe_identifier(name) is true for every string matching
\* ^[A-Za-z_][A-Za-z0-9_]*$ and false for the empty string and for every
\* string that contains a space, tab or newline at any position, a quote or a
\* semicolon, or that starts with a digit.
C3_SafeIdentifierDecides ==
    (pc = "done" /\ fn = "_safe_identifier") =>
        /\ MatchesGrammar(arg) => res = TRUE
        /\ MustBeRejected(arg) => res = FALSE

\* C7: paging.decode never raises on any input string; a missing or
\* non-numeric offset field decodes to offset 0, a missing module and a missing
\* extra decode to the empty string.
C7_DecodeNeverRaises ==
    (pc = "done" /\ fn = "decode") =>
        LET parts == str_split(arg, ":")
        IN  /\ res.raised = FALSE
            /\ (Len(parts) < 3 \/ ~str_to_int(parts[3]).ok) => res.offset = 0
            /\ Len(parts) < 2 => res.module = ""
            /\ Len(parts) < 4 => res.extra = ""

\* C8: for every module and extra without the separator ':' (extra possibly
\* empty) and every offset >= 0, decode(encode(module, offset, extra)) is
\* (module, offset, extra).
C8_RoundTrip ==
    (/\ pc = "done" /\ fn = "encode_decode"
     /\ ~HasCharIn(arg.module, {":"})
     /\ ~HasCharIn(arg.extra, {":"})
     /\ arg.offset >= 0) =>
        res = [raised |-> FALSE, module |-> arg.module,
               offset |-> arg.offset, extra |-> arg.extra]

C8_Witness ==
    /\ pc = "done" /\ fn = "encode_decode"
    /\ arg = [module |-> "brw", offset |-> 20, extra |-> "weight"]
    /\ res = [raised |-> FALSE, module |-> "brw", offset |-> 20, extra |-> "weight"]

\* C9: validate_select reports the first violated rule in the order
\* SELECT-start, semicolon, blocked keyword: a text that does not start with
\* SELECT gets the SELECT-only error whatever else it contains, a SELECT text
\* with a semicolon gets the semicolon error even if it holds a blocked
\* keyword, and a text that violates no rule gets no error.
C9_FirstViolatedRule ==
    (pc = "done" /\ fn = "validate_select") =>
        /\ ~StartsWithSelect(arg) => res = ErrSelect
        /\ (StartsWithSelect(arg) /\ HasSemicolon(arg)) => res = ErrSemicolon
        /\ (StartsWithSelect(arg) /\ ~HasSemicolon(arg) /\ BlockedWordsIn(arg) = {})
              => res = None

C9_Witness ==
    /\ pc = "done" /\ fn = "validate_select"
    /\ StartsWithSelect(arg) /\ HasSemicolon(arg) /\ BlockedWordsIn(arg) # {}
    /\ res = ErrSemicolon

\* C10: for a semicolon-free text starting with SELECT, validate_select returns
\* a keyword error if and only if a blocked keyword occurs in it as a whole
\* word in any letter case (a keyword inside a longer word is not rejected),
\* and the error names a keyword that occurs in the text as a whole word.
C10_WholeWordKeywords ==
    (/\ pc = "done" /\ fn = "validate_select"
     /\ StartsWithSelect(arg) /\ ~HasSemicolon(arg)) =>
        /\ IsKeywordError(res) <=> BlockedWordsIn(arg) # {}
        /\ IsKeywordError(res) => \E kw \in BlockedWordsIn(arg) : res = ErrKeyword(kw)

C10_Witness ==
    /\ pc = "done" /\ fn = "validate_select"
    /\ StartsWithSelect(arg) /\ ~HasSemicolon(arg)
    /\ str_contains(str_upper(arg), "CREATE")
    /\ BlockedWordsIn(arg) = {}
    /\ res = None

-----------------------------------------------------------------------------
(* Claims about the bot, checked under SpecBrowse and SpecQuery *)

\* C1: no table, schema or column name is interpolated into a query that
\* reaches the database unless it matches ^[A-Za-z_][A-Za-z0-9_]*$, whatever
\* the caller supplies and whatever the catalog holds.
C1_OnlySafeNamesInterpolated ==
    \A i \in 1..Len(issued) :
        \A k \in 1..Len(issued[i].idents) : MatchesGrammar(issued[i].idents[k])

\* The statements the last operation handed to db.execute_readonly.
Executed ==
    {issued[i].sql : i \in {k \in 1..Len(issued) : issued[k].helper = "execute_readonly"}}

\* The three validation rules of raw mode hold of text.
SatisfiesRules(text) ==
    /\ StartsWithSelect(text)
    /\ ~HasSemicolon(text)
    /\ BlockedWordsIn(text) = {}

\* C2: in raw mode db.execute_readonly is invoked only with text that
\* satisfies all three validation rules (the trimmed text begins with the six
\* letters SELECT in any case, holds no semicolon and no blocked keyword as a
\* whole word), for a typed text that satisfies them too, and from no other
\* handler; a typed text that violates a rule causes no database call at all.
C2_OnlyValidatedTextExecutes ==
    /\ Executed # {} =>
          /\ last.op = "msg_raw_sql"
          /\ SatisfiesRules(last.input)
          /\ \A sql \in Executed : SatisfiesRules(sql)
    /\ (last.op = "msg_raw_sql" /\ last.input # None /\ ~SatisfiesRules(last.input))
          => issued = <<>>

C2_Witness ==
    /\ last.op = "msg_raw_sql"
    /\ StartsWithSelect(last.input)
    /\ Len(issued) = 1
    /\ issued[1].helper = "execute_readonly"

\* The row limit raw mode promises.
RawRowLimit == 100

\* text ends with a LIMIT clause (in any letter case) of at most n rows.
EndsWithLimitAtMost(text, n) ==
    \E k \in 0..n :
        LET clause == " LIMIT " \o int_to_str(k)
        IN  /\ Len(text) >= Len(clause)
            /\ str_upper(SubSeq(text, Len(text) - Len(clause) + 1, Len(text))) = clause

\* C4: every statement executed from raw mode is row-limited to 100, whether
\* or not the typed text already contains the word LIMIT or a LIMIT of its own.
C4_RawStatementsLimitedTo100 ==
    \A sql \in Executed : EndsWithLimitAtMost(sql, RawRowLimit)

\* Telegram's ceiling on callback data, in bytes; every text of the model is
\* ASCII, one byte per character.
CallbackDataLimit == 64

\* C5: every callback token the bot emits is at most 64 bytes long, for every
\* table name the catalog can return.
C5_TokensFitCallbackData ==
    \A i \in 1..Len(keyboard) : Len(keyboard[i].data) <= CallbackDataLimit

\* The handlers that take a pagination token, and the page size of each.
PagingOps == {"cb_browse"} \cup {"cb_" \o d \o "_page" : d \in Domains}
PageSizeOf(op) == IF op = "cb_browse" THEN browse_page_size ELSE page_size

\* The offsets the last operation passed to row queries (a row query binds
\* limit and offset) and those it encoded into Prev and Next.
QueriedOffsets ==
    {issued[i].args[2] :
        i \in {k \in 1..Len(issued) :
                  issued[k].helper = "fetch" /\ Len(issued[k].idents) > 0
                      /\ Len(issued[k].args) = 2}}
EncodedOffsets ==
    {decode(keyboard[i].data).offset :
        i \in {k \in 1..Len(keyboard) : keyboard[k].text \in {"<< Prev", "Next >>"}}}

\* C6: for any inbound pagination token, every offset a paging handler passes
\* to a row query or encodes into Prev/Next is non-negative and a multiple of
\* the page size of that module.
C6_OffsetsArePageMultiples ==
    (last.op \in PagingOps /\ reply # Raised) =>
        \A off \in QueriedOffsets \cup
                   (IF reply # "DB error" /\ reply # "Missing table name."
                    THEN EncodedOffsets ELSE {}) :
            off >= 0 /\ off % PageSizeOf(last.op) = 0

(* ensure_limit *)

str_endswith(s, suffix) ==
    /\ Len(s) >= Len(suffix)
    /\ SubSeq(s, Len(s) - Len(suffix) + 1, Len(s)) = suffix

\* The statement has a LIMIT clause: the word LIMIT, in any case, standing as
\* a word of its own.
HasLimitClause(text) ==
    \E i \in 1..(Len(text) - 4) :
        /\ str_upper(SubSeq(text, i, i + 4)) = "LIMIT"
        /\ WordAt(text, i, i + 4)

LimitSuffix(n) == " LIMIT " \o int_to_str(n)

\* C11: ensure_limit returns the statement ending in " LIMIT n" exactly when
\* the statement has no LIMIT clause (in any case), and returns it unchanged
\* when it has one.
C11_LimitAppendedIffNoClause ==
    (pc = "done" /\ fn = "ensure_limit") =>
        IF HasLimitClause(arg.sql)
        THEN res.once = arg.sql
        ELSE /\ str_endswith(res.once, LimitSuffix(arg.max_rows))
             /\ res.once # arg.sql

\* C12: ensure_limit is idempotent: applied to its own result it changes
\* nothing, and what it appends is one clause, after a statement that had none.
C12_EnsureLimitIdempotent ==
    (pc = "done" /\ fn = "ensure_limit") =>
        /\ res.twice = res.once
        /\ res.once # arg.sql =>
               /\ str_endswith(res.once, LimitSuffix(arg.max_rows))
               /\ ~HasLimitClause(SubSeq(res.once, 1,
                       Len(res.once) - Len(LimitSuffix(arg.max_rows))))

\* A statement without the word got the clause once, and a second application
\* left it alone.
C12_Witness ==
    /\ pc = "done" /\ fn = "ensure_limit"
    /\ arg.sql = "SELECT * FROM t;"
    /\ res.once = "SELECT * FROM t LIMIT 100"
    /\ res.twice = "SELECT * FROM t LIMIT 100"

(* Schema-catalog operations and unsafe names *)

\* The catalog lookups that take a table name as a query argument.
CatalogLookups ==
    {_DESCRIBE_SQL, _INDEXES_SQL, _TABLE_EXISTS_SQL,
     _GET_TABLE_COLUMNS_SQL, _GET_PRIMARY_KEY_SQL}

\* C13: a schema-catalog operation (column listing, primary-key lookup,
\* existence check, row count, describe) issues no database query for a name
\* that fails the safe-identifier check: every catalog query that was issued
\* carries only names that pass it.
C13_CatalogQueriesOnlyForSafeNames ==
    \A i \in 1..Len(issued) :
        /\ issued[i].sql \in CatalogLookups =>
               \A k \in 1..Len(issued[i].args) : _safe_identifier(issued[i].args[k])
        /\ str_startswith(issued[i].sql, "SELECT COUNT(*) FROM ") =>
               \A k \in 1..Len(issued[i].idents) : _safe_identifier(issued[i].idents[k])

\* C14: browse_table called with a name that fails the safe-identifier check
\* returns empty headers and empty rows and issues neither the count query nor
\* the row query, for any limit and offset.
C14_UnsafeBrowseIssuesNothing ==
    (pc = "done" /\ fn = "browse_table" /\ ~_safe_identifier(arg.table)) =>
        /\ res.q = <<>>
        /\ ~res.raised
        /\ res.val.headers = <<>>
        /\ res.val.rows = 0

\* The injection attempt was browsed with a database that would have answered.
C14_Witness ==
    /\ pc = "done" /\ fn = "browse_table"
    /\ arg.table = "users; DROP TABLE users"
    /\ arg.limit = MaxBrowseLimit /\ arg.offset = MaxBrowseLimit
    /\ arg.db.fail = 0 /\ arg.db.nrows = 1
    /\ res.q = <<>>

(* The guided flow *)

\* The limits the guided flow offers.
GuidedLimits == {10, 50, 100}

\* The row queries of browse_table among the calls of the last operation.
BrowseRowQueries ==
    {i \in 1..Len(issued) : issued[i].helper = "fetch" /\ Len(issued[i].args) = 2}

\* C15: the guided flow invokes browse_table only with a limit of 10, 50 or
\* 100, whatever callback data the limit step accepts.
C15_GuidedLimitIsOffered ==
    last.op = "cb_guided_limit" =>
        \A i \in BrowseRowQueries : issued[i].args[1] \in GuidedLimits

\* What follows the second colon of a callback token.
TokenTail(data) == SubSeq(data, 7, Len(data))

\* The calls of the last operation that belong to browse_table.
BrowseCalls ==
    {i \in 1..Len(issued) :
        /\ issued[i].helper \in {"fetch", "fetchval"}
        /\ \/ str_startswith(issued[i].sql, "SELECT count(*) FROM ")
           \/ str_startswith(issued[i].sql, "SELECT * FROM ")}

\* One browse_table call for table and limit at offset 0: its count query,
\* followed by its row query unless the count query failed.
OneBrowseCall(table, limit) ==
    /\ Len(issued) \in {1, 2}
    /\ issued[1].helper = "fetchval" /\ issued[1].idents = <<table>>
    /\ Len(issued) = 2 =>
           /\ issued[2].helper = "fetch"
           /\ issued[2].idents = <<table>>
           /\ issued[2].args = <<limit, 0>>

C16_AfterEachStep ==
    /\ last.op = "cb_guided_start" /\ last.state = "choose_mode"
           => fsm \in {"pick_table", "choose_mode", None}
    /\ last.op = "cb_guided_table"
           => fsm = "pick_limit" /\ fsm_data = TokenTail(last.input)
    /\ (/\ last.op = "cb_guided_limit"
        /\ reply # Raised
        /\ last.data # None /\ MatchesGrammar(last.data))
           => /\ OneBrowseCall(last.data, str_to_int(TokenTail(last.input)).val)
              /\ fsm = None /\ fsm_data = None
    /\ BrowseCalls # {}
           => last.op = "cb_guided_limit" /\ last.state = "pick_limit" /\ fsm = None

\* C16: a guided session that goes from choosing the mode to guided, picks a
\* safe table T and then a limit L issues exactly one browse_table call, with
\* table T, limit L and offset 0, and is then cleared; the table stored by the
\* pick is the one browsed, and no browse call comes from a cleared session.
C16_GuidedSessionBrowsesOnce ==
    /\ []C16_AfterEachStep
    /\ [][(fsm = "pick_limit" /\ fsm' = "pick_limit") => fsm_data' = fsm_data]_vars

\* The operator picked weight and 50 rows; count and rows were queried.
C16_Witness ==
    /\ last.op = "cb_guided_limit" /\ last.input = "q:lim:50"
    /\ last.state = "pick_limit" /\ last.data = "weight"
    /\ Len(issued) = 2 /\ issued[2].args = <<50, 0>>
    /\ fsm = None

\* C17: both terminal transitions leave the session cleared whatever the
\* outcome: after a limit selection handled while picking the limit, and
\* after a message handled while entering raw SQL, the session is idle.
C17_TerminalStepsClearSession ==
    last.op \in {"cb_guided_limit", "msg_raw_sql"} =>
        fsm = None /\ fsm_data = None

(* Session events and their source states *)

NoSource == "<no source>"

\* The state in which a session event is acted on; NoSource for an input
\* that is no session event.
SourceState(input) ==
    IF input \in {"q:guided", "q:raw"} THEN "choose_mode"
    ELSE IF str_startswith(input, "q:tbl:") THEN "pick_table"
    ELSE IF str_startswith(input, "q:lim:") THEN "pick_limit"
    ELSE IF input \in RawTexts \cup PlainTexts THEN "enter_sql"
    ELSE NoSource

SessionHandlers ==
    {"cb_guided_start", "cb_raw_start", "cb_guided_table", "cb_guided_limit",
     "msg_raw_sql"}

\* C18: a session event is acted on only in its source state (mode selection
\* while choosing the mode, table selection while picking the table, limit
\* selection while picking the limit, free text while entering raw SQL);
\* delivered in any other state, idle included, it changes no session state
\* and triggers no database call.
C18_EventsOnlyInSourceState ==
    /\ last.op \in SessionHandlers => last.state = SourceState(last.input)
    /\ (/\ last.op \in SessionHandlers \cup {"unhandled"}
        /\ SourceState(last.input) # NoSource
        /\ SourceState(last.input) # last.state)
           => /\ fsm = last.state /\ fsm_data = last.data
              /\ issued = <<>>

\* A limit selection arrived while the mode was being chosen, with a table
\* still stored from an earlier flow, and nothing happened.
C18_Witness ==
    /\ last.op = "unhandled" /\ last.input = "q:lim:7"
    /\ last.state = "choose_mode" /\ last.data = "weight"
    /\ fsm = "choose_mode" /\ fsm_data = "weight"
    /\ issued = <<>>

(* Cancel *)

\* The operations that may change the session.
SessionChangers ==
    {"cmd_query", "cb_query_entry", "cb_guided_start", "cb_guided_table",
     "cb_guided_limit", "cb_raw_start", "cmd_cancel", "msg_raw_sql"}

\* C19: cancel is taken in every state and clears the session, the stored
\* table included; otherwise a session changes only by an event of the query
\* flow sent by the operator, never by itself.
C19_CancelClearsFromEveryState ==
    /\ [](Polling => ENABLED cmd_cancel)
    /\ [](last.op = "cmd_cancel" => fsm = None /\ fsm_data = None)
    /\ [][<<fsm, fsm_data>>' # <<fsm, fsm_data>> => last'.op \in SessionChangers]_vars

\* Cancel arrived while the limit was being picked for the stored table.
C19_Witness ==
    /\ last.op = "cmd_cancel"
    /\ last.state = "pick_limit" /\ last.data = "weight"
    /\ fsm = None /\ fsm_data = None

(* Table resolution at startup *)

\* The candidates of domain d that the database has, by position in the list.
ExistingCandidates(d) ==
    {k \in 1..Len(TABLE_CANDIDATES(d)) : HasTable(catalog, TABLE_CANDIDATES(d)[k])}

\* init() of domain d ran to its return.
InitReturned(d) == results[d] \in {"True", "False"}

\* C20: table resolution selects the first name of the ordered candidate list
\* that exists, ignoring later candidates even when they exist too; when no
\* candidate exists the domain has no table and is unavailable.
C20_FirstExistingCandidateWins ==
    \A d \in Domains :
        IF ExistingCandidates(d) = {}
        THEN _table[d] = None /\ ~available(d)
        ELSE (InitReturned(d) \/ _table[d] # None) =>
                \E k \in ExistingCandidates(d) :
                    /\ _table[d] = TABLE_CANDIDATES(d)[k]
                    /\ \A j \in ExistingCandidates(d) : k <= j

\* weight and body_weight both exist, the earlier candidate weight was taken.
C20_Witness ==
    /\ "weight" \in inited
    /\ ExistingCandidates("weight") = {2, 4}
    /\ _table["weight"] = "weight"

(* Column resolution *)

\* The candidates, by position, that name an existing column when both are
\* lower-cased.
MatchingCandidates(cols, candidates) ==
    {k \in 1..Len(candidates) :
        \E i \in 1..Len(cols) : str_lower(cols[i]) = str_lower(candidates[k])}

\* C21: _first_match returns the actual name of a column matched by the
\* earliest candidate, in the order of the candidate list and not of the
\* columns, whose lower-cased form equals the lower-cased form of an existing
\* column; it returns None when no candidate matches.
C21_EarliestCandidateDecides ==
    (pc = "done" /\ fn = "_first_match") =>
        LET hits == MatchingCandidates(arg.available_cols, arg.candidates)
        IN  IF hits = {} THEN res = None
            ELSE /\ \E i \in 1..Len(arg.available_cols) : res = arg.available_cols[i]
                 /\ \E k \in hits :
                        /\ \A j \in hits : k <= j
                        /\ str_lower(res) = str_lower(arg.candidates[k])

\* The column time stands before Date; the candidate date comes before the
\* candidate time, and the column is returned as it is spelled.
C21_Witness ==
    /\ pc = "done" /\ fn = "_first_match"
    /\ arg.available_cols = <<"time", "Date", "id">>
    /\ arg.candidates = _DATE_CANDIDATES("weight")
    /\ res = "Date"

(* Availability *)

\* The table the database offers to domain d first, None when it has none of
\* the candidates.
OfferedTable(d) ==
    IF ExistingCandidates(d) = {} THEN None
    ELSE TABLE_CANDIDATES(d)[Min(ExistingCandidates(d))]

\* The roles domain d requires can be filled from the columns of table.
RolesResolvable(d, table) ==
    LET cols == ColumnsOf(catalog, table)
    IN  IF d = "sleep"
        THEN \/ MatchingCandidates(cols, _START_CANDIDATES) # {}
             \/ MatchingCandidates(cols, _DATE_CANDIDATES(d)) # {}
        ELSE /\ MatchingCandidates(cols, _DATE_CANDIDATES(d)) # {}
             /\ MatchingCandidates(cols, _VALUE_CANDIDATES(d)) # {}

DomainQueries == {"recent", "count"}

Mapping(d) ==
    <<_table[d], _date_col[d], _value_col[d],
      IF d = "sleep" THEN <<_start_col, _duration_col>> ELSE <<>>>>

\* The mapping init() of domain d reaches when it runs alone against the
\* catalog and every call is answered.
MappingAlone(d) ==
    LET t    == OfferedTable(d)
        cols == ColumnsOf(catalog, t)
    IN  IF t = None THEN <<None, None, None, IF d = "sleep" THEN <<None, None>> ELSE <<>>>>
        ELSE <<t,
               _first_match(cols, _DATE_CANDIDATES(d)),
               IF d = "sleep" THEN None ELSE _first_match(cols, _VALUE_CANDIDATES(d)),
               IF d = "sleep"
               THEN <<_first_match(cols, _START_CANDIDATES),
                      _first_match(cols, _DURATION_CANDIDATES)>>
               ELSE <<>>>>

C23_Isolated ==
    /\ \A d \in Domains : InitReturned(d) => Mapping(d) = MappingAlone(d)
    /\ inited = {d \in Domains : results[d] # "pending"}

\* C23: the four init() run concurrently and fail in isolation: whichever
\* domains raise or stay unresolved, every domain whose init() returned has
\* the mapping it would have had alone, under every interleaving; a step of
\* one domain touches no other domain; an init() that raised counts as
\* ended like one that returned, so that startup goes on.
C23_StartupFailuresAreIsolated ==
    /\ []C23_Isolated
    /\ [][\A d \in Domains :
            last'.input # d => /\ Mapping(d)' = Mapping(d)
                               /\ results'[d] = results[d]]_vars

\* Startup is over: weight raised after its table was found, sleep found no
\* usable column, steps and heart are resolved.
C23_Witness ==
    /\ Polling
    /\ results["weight"] = "Exception" /\ _table["weight"] # None
    /\ results["sleep"] = "False" /\ _table["sleep"] = "sleep_sessions"
    /\ results["steps"] = "True" /\ Mapping("steps") = MappingAlone("steps")
    /\ results["heart"] = "True"

(* The mapping after startup *)

\* C24: once _init_domain_modules has completed, no domain's resolved table
\* or column names change again, under any sequence of handled requests.
C24_MappingFrozenAfterStartup ==
    [][Polling => \A d \in Domains : Mapping(d)' = Mapping(d)]_vars

\* A page of the resolved weight table was queried after startup.
C24_Witness ==
    /\ Polling
    /\ last.op = "cb_weight_page"
    /\ _table["weight"] = "weight" /\ _date_col["weight"] = "measured_at"
    /\ Len(issued) = 2
    /\ issued[1].idents = <<"weight", "measured_at">>

(* Database failures inside handlers *)

\* C25: every handler that performs a database call catches the failure of
\* that call and answers; no database failure leaves a handler as an
\* exception.  In every state, the handler that has just run and called the
\* database has not raised (the verification script is not a handler).
C25_NoDbFailureLeavesHandler ==
    (Polling /\ last.op # "run_verification" /\ issued # <<>>) => reply # Raised

(* The read-only executor *)

\* The calls of db.execute_readonly the last operation made.
ReadonlyCalls ==
    {issued[i] : i \in {k \in 1..Len(issued) : issued[k].helper = "execute_readonly"}}

Position(seq, step) ==
    IF \E i \in 1..Len(seq) : seq[i] = step
    THEN CHOOSE i \in 1..Len(seq) : seq[i] = step
    ELSE 0

\* C26: execute_readonly runs the statement only inside a transaction opened
\* read-only on a connection acquired from the pool; on success and on any
\* failure the transaction is ended and the connection is returned to the
\* pool; a failure reaches msg_raw_sql as an exception that it reports as an
\* SQL error, clearing the session, instead of raising.
C26_ReadOnlyTransactionAlwaysEnds ==
    \A c \in ReadonlyCalls :
        LET acquired == Position(c.conn, "acquire")
            begun    == Position(c.conn, "begin_readonly")
            fetched  == Position(c.conn, "fetch")
            ended    == Max(Position(c.conn, "commit"), Position(c.conn, "rollback"))
            released == Position(c.conn, "release")
        IN  /\ fetched > 0 =>
                /\ 0 < acquired /\ acquired < begun /\ begun < fetched
                /\ c.failed \notin {"acquire", "begin_readonly"}
                /\ fetched < ended /\ ended < released
            /\ (acquired > 0 /\ c.failed # "acquire") => released = Len(c.conn)
            /\ (begun > 0 /\ c.failed # "begin_readonly") =>
                (begun < ended /\ ended < released)
            /\ (c.failed # None) <=> (reply = "SQL Error")
            /\ reply # Raised
            /\ fsm = None /\ fsm_data = None

\* The database rejected the statement of a raw query: the transaction was
\* rolled back, the connection released and the operator told.
C26_Witness ==
    /\ last.op = "msg_raw_sql"
    /\ last.state = "enter_sql"
    /\ Len(issued) = 1
    /\ issued[1].helper = "execute_readonly"
    /\ issued[1].failed = "fetch"
    /\ issued[1].conn = <<"acquire", "begin_readonly", "fetch", "rollback", "release">>
    /\ reply = "SQL Error"

(* browse_table on a safe name *)

\* C27: for a safe table name browse_table issues the count query first and
\* then the row query; when the row query returns no rows the result is empty
\* headers, no rows and the total the count query produced; otherwise the
\* headers are the column names of the returned rows.
C27_CountThenRows ==
    (pc = "done" /\ fn = "browse_table" /\ _safe_identifier(arg.table)) =>
        LET count_sql == "SELECT count(*) FROM \"" \o arg.table \o "\""
            rows_sql  == "SELECT * FROM \"" \o arg.table
                             \o "\" ORDER BY 1 DESC LIMIT $1 OFFSET $2"
        IN  /\ Len(res.q) \in {1, 2}
            /\ res.q[1].helper = "fetchval" /\ res.q[1].sql = count_sql
            /\ Len(res.q) = 2 =>
                /\ res.q[2].helper = "fetch" /\ res.q[2].sql = rows_sql
                /\ res.q[2].args = <<arg.limit, arg.offset>>
            /\ ~res.raised =>
                /\ Len(res.q) = 2
                /\ res.val.total = arg.db.count
                /\ arg.db.nrows = 0 => (res.val.headers = <<>> /\ res.val.rows = 0)
                /\ arg.db.nrows > 0 =>
                    /\ res.val.headers = ColumnsOf(catalog, arg.table)
                    /\ res.val.rows = arg.db.nrows

\* A page past the end of a table that holds rows: no headers, no rows, and
\* the total of the count query.
C27_Witness ==
    /\ pc = "done" /\ fn = "browse_table"
    /\ arg.table = "weight" /\ arg.offset = MaxBrowseLimit
    /\ arg.db.count = MaxTotal /\ arg.db.nrows = 0
    /\ ~res.raised
    /\ res.val = Browsed(<<>>, 0, MaxTotal)

(* The gate in front of the handlers *)

\* C28: no handler and no database call runs for an update whose sender is
\* absent or is not the allowed user: the auth middleware answers with a
\* denial and stops the chain, for messages and callback queries alike.
\* Every update that reached a handler is the allowed user's; an update of
\* anyone else is answered with the denial of its kind, issues no database
\* call, and leaves what the limiters and the handlers have recorded.
C28_Denied ==
    /\ \A i \in 1..Len(handled) : handled[i].user = allowed_user_id
    /\ (last.op = "feed_update" /\ last.input.user # allowed_user_id) =>
           /\ issued = <<>>
           /\ reply = (IF last.input.kind = "message"
                       THEN "Sorry, this bot is private." ELSE "Access denied.")

C28_OnlyTheAllowedUserReachesHandlers ==
    /\ []C28_Denied
    /\ [][(last'.op = "feed_update" /\ last'.input.user # allowed_user_id) =>
            UNCHANGED <<_timestamps, handled, keyboard, sessionVars, mappingVars>>]_vars

\* A senderless callback query was denied after the operator had been served.
C28_Witness ==
    /\ last.op = "feed_update"
    /\ last.input = [kind |-> "callback_query", user |-> NoneInt]
    /\ reply = "Access denied."
    /\ issued = <<>>
    /\ Len(handled) = 1

\* The updates of user u that reached a handler in the window of window
\* seconds that starts at a.
HandledWithin(u, a) ==
    {i \in 1..Len(handled) :
        handled[i].user = u /\ a <= handled[i].at /\ handled[i].at < a + window}

\* C29: per user, at most max_calls updates, messages and callback queries
\* counted together, reach a handler within any window of window seconds.
C29_AtMostMaxCallsPerWindow ==
    \A u \in Users, a \in 0..MaxNow : Cardinality(HandledWithin(u, a)) <= max_calls

(* Walking a paginated list *)

\* The buttons the paginator offers at the offset the walk has reached.
WalkOffset == IF pc = "call" THEN 0 ELSE res.offset
Offered(text) ==
    LET row == paginator(arg.module, WalkOffset, arg.page_size, arg.total, arg.extra)
    IN  \E i \in 1..Len(row) : row[i].text = text

\* C30: starting from offset 0 and following only the Prev and Next tokens of
\* the paginator, with a known total that stays the same and page size P,
\* every offset visited is a multiple of P with 0 <= offset < max(total, 1);
\* Next is offered exactly when offset + P < total and leads to offset + P;
\* Prev is offered exactly when offset > 0 and leads to max(0, offset - P).
C30_WalkStaysOnPages ==
    fn = "paginator" =>
        /\ WalkOffset % arg.page_size = 0
        /\ 0 <= WalkOffset /\ WalkOffset < Max(arg.total, 1)
        /\ Offered("Next >>") <=> (WalkOffset + arg.page_size < arg.total)
        /\ Offered("<< Prev") <=> (WalkOffset > 0)
        /\ pc = "done" =>
            /\ res.via \in {"Next >>", "<< Prev"}
            /\ res.via = "Next >>" => res.offset = res.from + arg.page_size
            /\ res.via = "<< Prev" => res.offset = Max(0, res.from - arg.page_size)

\* The walk reached the last page of a list of 41 rows browsed 20 at a time.
C30_Witness ==
    /\ fn = "paginator" /\ pc = "done"
    /\ arg.module = BROWSE_MODULE /\ arg.total = 2 * browse_page_size + 1
    /\ res.via = "Next >>" /\ res.offset = 2 * browse_page_size

====
